---- MODULE Spec2Model ----
(***************************************************************************)
(* Model of the carmen analysis pipeline (src/app/agent.py and the nodes   *)
(* it calls).  One run of process_with_pipeline is a small process: entry  *)
(* check, three comparators, history(), prompt assembly, engine call,      *)
(* response normalization, persistence, return.  Runs share the agent      *)
(* handle, the session factory and the plant_analyses table only.          *)
(*                                                                         *)
(* Numbers are integers; a value rounded by round(x, 2) is kept in         *)
(* hundredths.  A string is a sequence of tokens [c |-> "..."]; blanks,    *)
(* quotes, brackets, braces and commas are tokens of their own, so that    *)
(* strip(), startswith() and find() can be modelled by what they do.  A    *)
(* token [doc |-> o] inside an engine reply stands for the serialized      *)
(* text of the JSON object o, from its opening to its closing brace.       *)
(***************************************************************************)
EXTENDS Integers, Sequences, FiniteSets, TLC

VARIABLES
    agent,              \* the module-level agent of agent.py: "None" or "engine"
    SessionLocal,       \* the session factory of database.py: "None" or "bound"
    lax,                \* whether the installed pydantic converts numbers to str
    table,              \* the rows of plant_analyses, in insertion order
    clock,              \* datetime.utcnow(), in ticks
    pc,                 \* per run: the step process_with_pipeline is at
    test_timestamp,     \* per run: the test_timestamp argument
    state,              \* per run: the State built by create_state
    fetched,            \* per run: the rows its history query returned
    prompt,             \* per run: the assembled prompt
    response,           \* per run: the raw text the engine returned
    analysis_response,  \* per run: the AnalysisResponse built by the run
    saved,              \* per run: what became of save_analysis
    raised,             \* per run: the exception that left process_with_pipeline
    steps,              \* per run: the calls made so far, in order
    call,               \* a call of one function on its own
    ret                 \* what that call returned

vars == <<agent, SessionLocal, lax, table, clock, pc, test_timestamp, state, fetched,
          prompt, response, analysis_response, saved, raised, steps, call, ret>>

globals == <<agent, SessionLocal, lax>>

-----------------------------------------------------------------------------
(* Bounds *)

MaxSeed == 3
MaxLen == 3
MaxDelta == 2

-----------------------------------------------------------------------------
(* Strings *)

Ch(c) == [c |-> c]
Doc(o) == [doc |-> o]
IsCh(tok, c) == "c" \in DOMAIN tok /\ tok.c = c
IsDoc(tok) == "doc" \in DOMAIN tok

SP == Ch(" ")
DQ == Ch("dq")
SQ == Ch("sq")
LBRACK == Ch("[")
RBRACK == Ch("]")
LBRACE == Ch("{")
RBRACE == Ch("}")
COMMA == Ch(",")

NoActionNeeded == <<Ch("No"), SP, Ch("action"), SP, Ch("needed")>>
AnalysisCompleted == <<Ch("Analysis"), SP, Ch("completed")>>
Aucune == <<Ch("aucune")>>
TakeAction == <<Ch("Take"), SP, Ch("action:"), SP>>
TakeMultiple == <<Ch("Take"), SP, Ch("multiple"), SP, Ch("actions:"), SP>>
AndSep == <<SP, Ch("and"), SP>>
CommaSep == <<COMMA, SP>>

(* an exception propagating out of a call *)
Raise(kind) == [exc |-> kind]
IsExc(x) == "exc" \in DOMAIN x

Abs(x) == IF x < 0 THEN -x ELSE x

(* round(num / den, 2) in hundredths, ties to even as Python's round *)
Round2(num, den) ==
    LET n == IF den < 0 THEN -num ELSE num
        d == Abs(den)
        a == Abs(n) * 100
        q == a \div d
        r == a % d
        m == IF 2 * r > d THEN q + 1
             ELSE IF 2 * r = d THEN q + (q % 2)
             ELSE q
    IN  IF n < 0 THEN -m ELSE m

(* round(num / den, 1) in tenths, for den > 0 and num >= 0 *)
Round1(num, den) ==
    LET a == num * 10
        q == a \div den
        r == a % den
    IN  IF 2 * r > den THEN q + 1
        ELSE IF 2 * r = den THEN q + (q % 2)
        ELSE q

-----------------------------------------------------------------------------
(* Ideal-conditions catalog and the comparators *)

Catalog ==
    [basil |-> [ideal_conditions |->
                   [soil_moisture |-> 60,
                    light |-> [min |-> 1000, max |-> 1500, ideal |-> 1200],
                    temperature |-> [min |-> 18, max |-> 26, ideal |-> 22]],
                tolerances |-> [soil_moisture |-> 5, light |-> 100, temperature |-> 2]]]

load_plant_data_default(plant_id) ==
    IF plant_id \in DOMAIN Catalog THEN Catalog[plant_id] ELSE Catalog["basil"]

load_plant_data(plant_id) ==
    IF plant_id \in DOMAIN Catalog THEN Catalog[plant_id] ELSE Raise("ValueError")

soil_moisture_of_strict(plant, value) ==
    LET ideal == plant.ideal_conditions.soil_moisture
        tolerance == plant.tolerances.soil_moisture
        difference == value - ideal
        status == IF Abs(difference) < tolerance THEN "OK" ELSE "ALERT"
        message == IF Abs(difference) < tolerance THEN "optimal"
                   ELSE IF difference > 0 THEN "too_high"
                   ELSE "too_low"
    IN  [parameter |-> "soil_moisture", current |-> value, ideal |-> ideal,
         difference |-> difference, status |-> status, message |-> message]

(* src/app/nodes/soil_moisture.py lines 35-63 *)
soil_moisture_of(plant, value) ==
    LET ideal == plant.ideal_conditions.soil_moisture
        tolerance == plant.tolerances.soil_moisture
        difference == value - ideal
        status == IF Abs(difference) <= tolerance THEN "OK" ELSE "ALERT"
        message == IF Abs(difference) <= tolerance THEN "optimal"
                   ELSE IF difference > 0 THEN "too_high"
                   ELSE "too_low"
    IN  [parameter |-> "soil_moisture", current |-> value, ideal |-> ideal,
         difference |-> difference, status |-> status, message |-> message]

soil_moisture(plant_type, value) ==
    LET plant == load_plant_data(plant_type)
    IN  IF IsExc(plant) THEN plant ELSE soil_moisture_of(plant, value)

temperature_of_band_first(plant, value) ==
    LET ideal_conditions == plant.ideal_conditions.temperature
        tolerance == plant.tolerances.temperature
        min_temp == ideal_conditions.min
        max_temp == ideal_conditions.max
        ideal_temp == ideal_conditions.ideal
        difference == value - ideal_temp
        status == IF min_temp <= value /\ value <= max_temp THEN "OK"
                  ELSE IF Abs(difference) <= tolerance THEN "OK"
                  ELSE "ALERT"
        message == IF status = "OK"
                   THEN IF min_temp <= value /\ value <= max_temp THEN "acceptable" ELSE "optimal"
                   ELSE IF value < min_temp THEN "below_min"
                   ELSE IF value > max_temp THEN "above_max"
                   ELSE "out_of_tolerance"
    IN  [parameter |-> "temperature", current |-> value, ideal |-> ideal_conditions,
         difference |-> difference, status |-> status, message |-> message]

temperature_of(plant, value) ==
    LET ideal_conditions == plant.ideal_conditions.temperature
        tolerance == plant.tolerances.temperature
        min_temp == ideal_conditions.min
        max_temp == ideal_conditions.max
        ideal_temp == ideal_conditions.ideal
        difference == value - ideal_temp
        status == IF min_temp <= value /\ value <= max_temp THEN "OK"
                  ELSE IF Abs(difference) <= tolerance THEN "OK"
                  ELSE "ALERT"
        message == IF status = "OK"
                   THEN IF Abs(difference) <= tolerance THEN "optimal" ELSE "acceptable"
                   ELSE IF value < min_temp THEN "below_min"
                   ELSE IF value > max_temp THEN "above_max"
                   ELSE "out_of_tolerance"
    IN  [parameter |-> "temperature", current |-> value, ideal |-> ideal_conditions,
         difference |-> difference, status |-> status, message |-> message]

temperature(plant_type, value) ==
    LET plant == load_plant_data(plant_type)
    IN  IF IsExc(plant) THEN plant ELSE temperature_of(plant, value)

light_of_nearest_edge(plant, value) ==
    LET ideal_conditions == plant.ideal_conditions.light
        tolerance == plant.tolerances.light
        min_light == ideal_conditions.min
        max_light == ideal_conditions.max
        ideal_light == ideal_conditions.ideal
        difference == IF value < min_light THEN value - min_light
                      ELSE IF value > max_light THEN value - max_light
                      ELSE value - ideal_light
        status == IF min_light <= value /\ value <= max_light THEN "OK"
                  ELSE IF Abs(difference) <= tolerance THEN "OK"
                  ELSE "ALERT"
        message == IF status = "OK"
                   THEN IF Abs(difference) <= tolerance THEN "optimal" ELSE "acceptable"
                   ELSE IF value < min_light THEN "below_min"
                   ELSE IF value > max_light THEN "above_max"
                   ELSE "out_of_tolerance"
    IN  [parameter |-> "light", current |-> value, ideal |-> ideal_conditions,
         difference |-> difference, status |-> status, message |-> message]

(* src/app/nodes/light_node.py lines 35-80 *)
light_of(plant, value) ==
    LET ideal_conditions == plant.ideal_conditions.light
        tolerance == plant.tolerances.light
        min_light == ideal_conditions.min
        max_light == ideal_conditions.max
        ideal_light == ideal_conditions.ideal
        difference == value - ideal_light
        status == IF min_light <= value /\ value <= max_light THEN "OK"
                  ELSE IF Abs(difference) <= tolerance THEN "OK"
                  ELSE "ALERT"
        message == IF status = "OK"
                   THEN IF Abs(difference) <= tolerance THEN "optimal" ELSE "acceptable"
                   ELSE IF value < min_light THEN "below_min"
                   ELSE IF value > max_light THEN "above_max"
                   ELSE "out_of_tolerance"
    IN  [parameter |-> "light", current |-> value, ideal |-> ideal_conditions,
         difference |-> difference, status |-> status, message |-> message]

light(plant_type, value) ==
    LET plant == load_plant_data(plant_type)
    IN  IF IsExc(plant) THEN plant ELSE light_of(plant, value)

-----------------------------------------------------------------------------
(* Trend analyzer: src/app/nodes/history_node.py *)

(* Python's None, and a value that is present *)
None == [none |-> TRUE]
Some(v) == [some |-> v]
TicksPerDay == 2
HistoryLimit == 10
RecentShown == 5
Metrics == {"humidity", "light", "temperature"}

RECURSIVE Sum(_)
Sum(values) == IF values = <<>> THEN 0 ELSE Head(values) + Sum(Tail(values))

Reverse(s) == [i \in 1..Len(s) |-> s[Len(s) + 1 - i]]
Front(s) == SubSeq(s, 1, Len(s) - 1)
Last(s) == s[Len(s)]

(* avg_historical = total / n is positive exactly when total is; with     *)
(* num = current_value * n - total, change = num / n and                  *)
(* change_percent = num / total * 100 when avg_historical > 0, else 0.    *)
calculate_trend(values, current_value) ==
    IF Len(values) < 2
    THEN [direction |-> "insufficient_data", change |-> 0, period |-> <<Ch("N/A")>>]
    ELSE LET n == Len(values)
             total == Sum(values)
             num == current_value * n - total
             avg_positive == total > 0
             small == IF avg_positive THEN Abs(num) * 100 < 2 * total ELSE TRUE
             direction == IF small THEN "stable"
                          ELSE IF num > 0 THEN "increasing"
                          ELSE "decreasing"
         IN  [direction |-> direction,
              change |-> Round2(num, n),
              change_percent |-> IF avg_positive THEN Round2(num * 100, total) ELSE 0,
              average_historical |-> Round2(total, n),
              period |-> <<Ch(ToString(n)), SP, Ch("analyses")>>]

isoformat(ts) == [date |-> ts \div TicksPerDay, time |-> ts % TicksPerDay]

(* rows of plant_id ordered by timestamp descending, at most limit of      *)
(* them; rows with equal timestamps come in any order the database picks   *)
RECURSIVE OrderedDesc(_, _, _)
OrderedDesc(rows, ids, limit) ==
    IF ids = {} \/ limit = 0 THEN {<<>>}
    ELSE UNION { { <<rows[i]>> \o rest : rest \in OrderedDesc(rows, ids \ {i}, limit - 1) } :
                 i \in {j \in ids : \A m \in ids : rows[m].timestamp <= rows[j].timestamp} }

query_recent_by_id(rows, plant_id, limit) ==
    LET mine == Reverse(SelectSeq(rows, LAMBDA row : row.plant_id = plant_id))
    IN  {SubSeq(mine, 1, IF Len(mine) < limit THEN Len(mine) ELSE limit)}

query_recent(rows, plant_id, limit) ==
    OrderedDesc(rows, {i \in 1..Len(rows) : rows[i].plant_id = plant_id}, limit)

history_error(text) ==
    [has_history |-> FALSE, recent_analyses |-> <<>>, trends |-> <<>>,
     summary |-> [total_analyses |-> 0,
                  message |-> <<Ch("Error"), SP, Ch("retrieving"), SP, Ch("history:"), SP, Ch(text)>>]]

history_empty_unchecked ==
    [has_history |-> TRUE, recent_analyses |-> <<>>, trends |-> <<>>,
     summary |-> [total_analyses |-> 0, alert_count |-> 0, alert_percentage |-> 0,
                  last_alert_date |-> None, time_span_days |-> 1,
                  average_values |-> [m \in Metrics |-> 0],
                  most_recent_date |-> None]]

(* lines 86-96 *)
history_empty ==
    [has_history |-> FALSE, recent_analyses |-> <<>>, trends |-> <<>>,
     summary |-> [total_analyses |-> 0,
                  message |-> <<Ch("No"), SP, Ch("historical"), SP, Ch("data"), SP, Ch("available")>>]]

history_of_no_floor(analyses) ==
    IF Len(analyses) = 0 THEN history_empty
    ELSE
    LET recent_analyses == [i \in 1..Len(analyses) |->
                              [timestamp |-> isoformat(analyses[i].timestamp),
                               humidity |-> analyses[i].humidity,
                               light |-> analyses[i].light,
                               temperature |-> analyses[i].temperature,
                               status |-> analyses[i].status]]
        values == [m \in Metrics |-> Reverse([i \in 1..Len(analyses) |-> analyses[i][m]])]
        alerts == {i \in 1..Len(analyses) : analyses[i].status = "ALERT"}
        alert_count == Cardinality(alerts)
        last_alert_date == IF alerts = {} THEN None
                           ELSE Some(analyses[CHOOSE i \in alerts : \A j \in alerts : i <= j].timestamp)
        trends == [m \in {k \in Metrics : Len(values[k]) > 1} |->
                      calculate_trend(Front(values[m]), Last(values[m]))]
        total_analyses == Len(analyses)
        time_span == analyses[1].timestamp - analyses[Len(analyses)].timestamp
        days == time_span \div TicksPerDay
        days_span == IF Len(analyses) > 1 THEN days ELSE 1
        summary == [total_analyses |-> total_analyses,
                    alert_count |-> alert_count,
                    alert_percentage |-> Round1(alert_count * 100, total_analyses),
                    last_alert_date |-> IF last_alert_date = None THEN None
                                        ELSE Some(isoformat(last_alert_date.some)),
                    time_span_days |-> days_span,
                    average_values |-> [m \in Metrics |-> Round2(Sum(values[m]), Len(values[m]))],
                    most_recent_date |-> isoformat(analyses[1].timestamp)]
    IN  [has_history |-> TRUE, recent_analyses |-> recent_analyses,
         trends |-> trends, summary |-> summary]

(* the body of history() once the query has returned analyses (newest first) *)
history_of(analyses) ==
    IF Len(analyses) = 0 THEN history_empty
    ELSE
    LET recent_analyses == [i \in 1..Len(analyses) |->
                              [timestamp |-> isoformat(analyses[i].timestamp),
                               humidity |-> analyses[i].humidity,
                               light |-> analyses[i].light,
                               temperature |-> analyses[i].temperature,
                               status |-> analyses[i].status]]
        values == [m \in Metrics |-> Reverse([i \in 1..Len(analyses) |-> analyses[i][m]])]
        alerts == {i \in 1..Len(analyses) : analyses[i].status = "ALERT"}
        alert_count == Cardinality(alerts)
        last_alert_date == IF alerts = {} THEN None
                           ELSE Some(analyses[CHOOSE i \in alerts : \A j \in alerts : i <= j].timestamp)
        trends == [m \in {k \in Metrics : Len(values[k]) > 1} |->
                      calculate_trend(Front(values[m]), Last(values[m]))]
        total_analyses == Len(analyses)
        time_span == analyses[1].timestamp - analyses[Len(analyses)].timestamp
        days == time_span \div TicksPerDay
        days_span == IF Len(analyses) > 1 THEN (IF days > 0 THEN days ELSE 1) ELSE 1
        summary == [total_analyses |-> total_analyses,
                    alert_count |-> alert_count,
                    alert_percentage |-> Round1(alert_count * 100, total_analyses),
                    last_alert_date |-> IF last_alert_date = None THEN None
                                        ELSE Some(isoformat(last_alert_date.some)),
                    time_span_days |-> days_span,
                    average_values |-> [m \in Metrics |-> Round2(Sum(values[m]), Len(values[m]))],
                    most_recent_date |-> isoformat(analyses[1].timestamp)]
    IN  [has_history |-> TRUE, recent_analyses |-> recent_analyses,
         trends |-> trends, summary |-> summary]

history_raises(bound, reachable, analyses) ==
    IF ~bound THEN Raise("RuntimeError")
    ELSE IF ~reachable THEN Raise("OperationalError")
    ELSE history_of(analyses)

(* history(plant_id, limit): bound says whether the session factory is    *)
(* set, reachable whether the store answers the query, and analyses is    *)
(* what the query returns when it does                                     *)
history(bound, reachable, analyses) ==
    IF ~bound THEN history_error("RuntimeError")
    ELSE IF ~reachable THEN history_error("OperationalError")
    ELSE history_of(analyses)

-----------------------------------------------------------------------------
(* Prompt assembly: src/app/agent.py lines 177-253 *)

trend_line(trends, m) ==
    IF m \notin DOMAIN trends THEN None
    ELSE IF "average_historical" \notin DOMAIN trends[m] THEN Raise("KeyError")
    ELSE Some([metric |-> m, direction |-> trends[m].direction,
               change |-> trends[m].change,
               average_historical |-> trends[m].average_historical])

first_n_uncut(s, n) == s

first_n(s, n) == SubSeq(s, 1, IF Len(s) < n THEN Len(s) ELSE n)

history_section(history_data) ==
    LET lines == [m \in Metrics |-> trend_line(history_data.trends, m)]
    IN  IF \E m \in Metrics : IsExc(lines[m]) THEN Raise("KeyError")
        ELSE [total_analyses |-> history_data.summary.total_analyses,
              time_span_days |-> history_data.summary.time_span_days,
              alert_count |-> history_data.summary.alert_count,
              alert_percentage |-> history_data.summary.alert_percentage,
              trends |-> [m \in {k \in Metrics : lines[k] # None} |-> lines[m].some],
              last_alert |-> history_data.summary.last_alert_date,
              recent |-> IF Len(history_data.recent_analyses) > 1
                         THEN [i \in 1..Len(first_n(history_data.recent_analyses, RecentShown)) |->
                                 [date |-> history_data.recent_analyses[i].timestamp.date,
                                  humidity |-> history_data.recent_analyses[i].humidity,
                                  light |-> history_data.recent_analyses[i].light,
                                  temperature |-> history_data.recent_analyses[i].temperature,
                                  status |-> history_data.recent_analyses[i].status]]
                         ELSE <<>>]

build_prompt(st) ==
    LET history_data == st.metadata.history
        section == IF history_data.has_history THEN history_section(history_data) ELSE None
    IN  IF IsExc(section) THEN section
        ELSE [plant_id |-> st.plant_id, plant_type |-> st.plant_type,
              sensor_data |-> st.sensor_data,
              results |-> [k \in DOMAIN st.comparisons |->
                             [status |-> st.comparisons[k].status,
                              message |-> st.comparisons[k].message]],
              detailed |-> st.comparisons,
              historical_context |-> section]

-----------------------------------------------------------------------------
(* Response normalization: src/app/agent.py lines 268-345 *)

(* values decoded by json.loads or ast.literal_eval *)
JStr(s) == [t |-> "str", s |-> s]
JNum(n) == [t |-> "num", n |-> n]
JBool(b) == [t |-> "bool", b |-> b]
JList(l) == [t |-> "list", items |-> l]
JNull == [t |-> "null"]
JDict == [t |-> "dict"]
Absent == [t |-> "absent"]
EmptyObject == [status |-> Absent, message |-> Absent, action |-> Absent]

RECURSIVE Join(_, _)
Join(strs, sep) ==
    IF Len(strs) = 0 THEN <<>>
    ELSE IF Len(strs) = 1 THEN strs[1]
    ELSE strs[1] \o sep \o Join(Tail(strs), sep)

Contains(s, tok) == \E i \in 1..Len(s) : s[i] = tok

(* str(v) and repr(v) of a decoded value *)
RECURSIVE py_str(_)
RECURSIVE py_repr(_)
py_repr(v) ==
    IF v.t = "str"
    THEN IF Contains(v.s, SQ) /\ ~Contains(v.s, DQ) THEN <<DQ>> \o v.s \o <<DQ>>
         ELSE <<SQ>> \o v.s \o <<SQ>>
    ELSE py_str(v)
py_str(v) ==
    CASE v.t = "str" -> v.s
      [] v.t = "num" -> <<Ch(ToString(v.n))>>
      [] v.t = "bool" -> IF v.b THEN <<Ch("True")>> ELSE <<Ch("False")>>
      [] v.t = "null" -> <<Ch("None")>>
      [] v.t = "dict" -> <<LBRACE, RBRACE>>
      [] v.t = "list" -> <<LBRACK>>
                         \o Join([i \in 1..Len(v.items) |-> py_repr(v.items[i])], CommaSep)
                         \o <<RBRACK>>

RECURSIVE lstrip(_)
lstrip(s) == IF Len(s) > 0 /\ s[1] = SP THEN lstrip(Tail(s)) ELSE s
RECURSIVE rstrip(_)
rstrip(s) == IF Len(s) > 0 /\ s[Len(s)] = SP THEN rstrip(Front(s)) ELSE s
strip(s) == rstrip(lstrip(s))

startswith(s, tok) == Len(s) > 0 /\ s[1] = tok
endswith(s, tok) == Len(s) > 0 /\ s[Len(s)] = tok
(* s[1:-1] *)
inner(s) == SubSeq(s, 2, Len(s) - 1)

(* ast.literal_eval on lists of string, number, None, True, False and     *)
(* nested list literals; adjacent string literals concatenate             *)
NumTokens == {Ch(ToString(n)) : n \in 0..9}
NumOf(tok) == CHOOSE n \in 0..9 : Ch(ToString(n)) = tok
Failed == [ok |-> FALSE]
Parsed(v, next) == [ok |-> TRUE, v |-> v, next |-> next]

RECURSIVE skip_ws(_, _)
skip_ws(s, i) == IF i <= Len(s) /\ s[i] = SP THEN skip_ws(s, i + 1) ELSE i

RECURSIVE close_quote(_, _, _)
close_quote(s, q, i) ==
    IF i > Len(s) THEN 0 ELSE IF s[i] = q THEN i ELSE close_quote(s, q, i + 1)

RECURSIVE parse_strings(_, _, _)
parse_strings(s, i, acc) ==
    LET j == close_quote(s, s[i], i + 1)
        k == skip_ws(s, j + 1)
    IN  IF j = 0 THEN Failed
        ELSE IF k <= Len(s) /\ s[k] \in {SQ, DQ}
             THEN parse_strings(s, k, acc \o SubSeq(s, i + 1, j - 1))
        ELSE Parsed(JStr(acc \o SubSeq(s, i + 1, j - 1)), j + 1)

RECURSIVE parse_value(_, _)
RECURSIVE parse_items(_, _, _)
parse_value(s, i) ==
    IF i > Len(s) THEN Failed
    ELSE IF s[i] \in {SQ, DQ} THEN parse_strings(s, i, <<>>)
    ELSE IF s[i] \in NumTokens THEN Parsed(JNum(NumOf(s[i])), i + 1)
    ELSE IF s[i] = Ch("None") THEN Parsed(JNull, i + 1)
    ELSE IF s[i] = Ch("True") THEN Parsed(JBool(TRUE), i + 1)
    ELSE IF s[i] = Ch("False") THEN Parsed(JBool(FALSE), i + 1)
    ELSE IF s[i] = LBRACK THEN parse_items(s, i + 1, <<>>)
    ELSE Failed
parse_items(s, i, acc) ==
    LET j == skip_ws(s, i)
        a == parse_value(s, j)
        k == skip_ws(s, a.next)
    IN  IF j > Len(s) THEN Failed
        ELSE IF s[j] = RBRACK THEN Parsed(JList(acc), j + 1)
        ELSE IF ~a.ok THEN Failed
        ELSE IF k > Len(s) THEN Failed
        ELSE IF s[k] = COMMA THEN parse_items(s, k + 1, Append(acc, a.v))
        ELSE IF s[k] = RBRACK THEN Parsed(JList(Append(acc, a.v)), k + 1)
        ELSE Failed

literal_eval_json(s) ==
    LET r == parse_value(s, skip_ws(s, 1))
    IN  IF Contains(s, SQ) THEN Raise("JSONDecodeError")
        ELSE IF r.ok /\ skip_ws(s, r.next) > Len(s) THEN r.v ELSE Raise("SyntaxError")

literal_eval(s) ==
    LET r == parse_value(s, skip_ws(s, 1))
    IN  IF r.ok /\ skip_ws(s, r.next) > Len(s) THEN r.v ELSE Raise("SyntaxError")

(* "{" in response, response.find("{") and response.rfind("}"): a Doc    *)
(* token carries an opening and a closing brace                           *)
HasOpen(tok) == tok = LBRACE \/ IsDoc(tok)
HasClose(tok) == tok = RBRACE \/ IsDoc(tok)
find_open(text) == CHOOSE i \in 1..Len(text) :
                      HasOpen(text[i]) /\ \A j \in 1..(i - 1) : ~HasOpen(text[j])
rfind_close(text) == CHOOSE i \in 1..Len(text) :
                        HasClose(text[i]) /\ \A j \in (i + 1)..Len(text) : ~HasClose(text[j])

(* json.loads of a slice that starts at a "{" and ends at a "}" *)
json_loads(json_str) ==
    IF Len(json_str) = 1 /\ IsDoc(json_str[1]) THEN json_str[1].doc
    ELSE IF Len(json_str) >= 2 /\ json_str[1] = LBRACE /\ json_str[Len(json_str)] = RBRACE
            /\ \A i \in 2..(Len(json_str) - 1) : json_str[i] = SP
         THEN EmptyObject
    ELSE Raise("JSONDecodeError")

fallback_result_trimmed(text) ==
    [status |-> JStr(<<Ch("OK")>>), message |-> JStr(strip(text)), action |-> JStr(Aucune)]

(* lines 279-283 and 287-291 *)
fallback_result(text) ==
    [status |-> JStr(<<Ch("OK")>>), message |-> JStr(text), action |-> JStr(Aucune)]

(* lines 268-291 *)
parse_response(text) ==
    IF (\E i \in 1..Len(text) : HasOpen(text[i])) /\ (\E i \in 1..Len(text) : HasClose(text[i]))
    THEN LET start == find_open(text)
             end == rfind_close(text)
             result == json_loads(SubSeq(text, start, end))
         IN  IF IsExc(result) THEN fallback_result(text) ELSE result
    ELSE fallback_result(text)

(* lines 299-306 and 325-331: a list turned into a sentence; ", ".join    *)
(* raises TypeError on an element that is not a string                    *)
Str(v) == [str |-> v]

list_to_sentence_all_commas(items) ==
    IF Len(items) = 0 THEN Str(NoActionNeeded)
    ELSE IF Len(items) = 1 THEN Str(TakeAction \o py_str(items[1]))
    ELSE IF \E i \in 1..(Len(items) - 1) : items[i].t # "str" THEN Raise("TypeError")
    ELSE Str(TakeMultiple \o Join([i \in 1..(Len(items) - 1) |-> items[i].s], CommaSep)
                          \o CommaSep \o py_str(items[Len(items)]))

list_to_sentence(items) ==
    IF Len(items) = 0 THEN Str(NoActionNeeded)
    ELSE IF Len(items) = 1 THEN Str(TakeAction \o py_str(items[1]))
    ELSE IF \E i \in 1..(Len(items) - 1) : items[i].t # "str" THEN Raise("TypeError")
    ELSE Str(TakeMultiple \o Join([i \in 1..(Len(items) - 1) |-> items[i].s], CommaSep)
                          \o AndSep \o py_str(items[Len(items)]))

clean_action_trims_twice(action_value) ==
    LET stripped == strip(action_value)
        unq1 == IF startswith(stripped, DQ) /\ endswith(stripped, DQ)
                THEN strip(inner(stripped)) ELSE stripped
        unq2 == IF startswith(unq1, SQ) /\ endswith(unq1, SQ)
                THEN strip(inner(unq1)) ELSE unq1
        parsed_list == literal_eval(unq2)
        sentence == list_to_sentence(parsed_list.items)
        listed == IF startswith(unq2, LBRACK) /\ endswith(unq2, RBRACK)
                  THEN IF IsExc(parsed_list) THEN unq2
                       ELSE IF parsed_list.t # "list" THEN unq2
                       ELSE IF IsExc(sentence) THEN unq2
                       ELSE sentence.str
                  ELSE unq2
    IN  IF Len(listed) = 0 THEN NoActionNeeded ELSE listed

clean_action_no_default(action_value) ==
    LET stripped == strip(action_value)
        unq1 == IF startswith(stripped, DQ) /\ endswith(stripped, DQ)
                THEN inner(stripped) ELSE stripped
        unq2 == IF startswith(unq1, SQ) /\ endswith(unq1, SQ) THEN inner(unq1) ELSE unq1
        parsed_list == literal_eval(unq2)
        sentence == list_to_sentence(parsed_list.items)
    IN  IF startswith(unq2, LBRACK) /\ endswith(unq2, RBRACK)
        THEN IF IsExc(parsed_list) THEN unq2
             ELSE IF parsed_list.t # "list" THEN unq2
             ELSE IF IsExc(sentence) THEN unq2
             ELSE sentence.str
        ELSE unq2

(* lines 311-338, on the string action_value; the bare except keeps the   *)
(* string when literal_eval or the join fails                             *)
clean_action(action_value) ==
    LET stripped == strip(action_value)
        unq1 == IF startswith(stripped, DQ) /\ endswith(stripped, DQ)
                THEN inner(stripped) ELSE stripped
        unq2 == IF startswith(unq1, SQ) /\ endswith(unq1, SQ) THEN inner(unq1) ELSE unq1
        parsed_list == literal_eval(unq2)
        sentence == list_to_sentence(parsed_list.items)
        listed == IF startswith(unq2, LBRACK) /\ endswith(unq2, RBRACK)
                  THEN IF IsExc(parsed_list) THEN unq2
                       ELSE IF parsed_list.t # "list" THEN unq2
                       ELSE IF IsExc(sentence) THEN unq2
                       ELSE sentence.str
                  ELSE unq2
    IN  IF Len(listed) = 0 THEN NoActionNeeded ELSE listed

(* lines 293-338: the action of the decoded object as a sentence *)
extract_action(result) ==
    LET action_value == IF result.action = Absent THEN JStr(NoActionNeeded) ELSE result.action
        sentence == list_to_sentence(action_value.items)
    IN  IF action_value.t = "list"
        THEN IF IsExc(sentence) THEN sentence ELSE Str(clean_action(sentence.str))
        ELSE Str(clean_action(py_str(action_value)))

(* AnalysisResponse(status=..., message=..., action=...): status is        *)
(* Literal["OK", "ALERT"], message is str; coerce: whether the installed  *)
(* pydantic converts a number given for a str field                        *)
validate_response(status, message, action, coerce) ==
    IF ~(status.t = "str" /\ status.s \in {<<Ch("OK")>>, <<Ch("ALERT")>>})
    THEN Raise("ValidationError")
    ELSE IF message.t = "str"
    THEN [status |-> status.s[1].c, message |-> message.s, action |-> action]
    ELSE IF coerce /\ message.t = "num"
    THEN [status |-> status.s[1].c, message |-> py_str(message), action |-> action]
    ELSE Raise("ValidationError")

normalize_or_default(text, coerce) ==
    LET result == parse_response(text)
        action_value == extract_action(result)
    IN  IF IsExc(action_value) THEN action_value
        ELSE validate_response(
                 IF result.status \in {Absent, JNull} THEN JStr(<<Ch("OK")>>)
                 ELSE result.status,
                 IF result.message \in {Absent, JNull} THEN JStr(AnalysisCompleted)
                 ELSE result.message,
                 action_value.str, coerce)

(* lines 268-345: the raw engine text to an AnalysisResponse, or the       *)
(* exception that leaves process_with_pipeline                             *)
normalize(text, coerce) ==
    LET result == parse_response(text)
        action_value == extract_action(result)
    IN  IF IsExc(action_value) THEN action_value
        ELSE validate_response(
                 IF result.status = Absent THEN JStr(<<Ch("OK")>>) ELSE result.status,
                 IF result.message = Absent THEN JStr(AnalysisCompleted) ELSE result.message,
                 action_value.str, coerce)

-----------------------------------------------------------------------------
(* The pipeline: process_with_pipeline, src/app/agent.py lines 109-369 *)

Runs == {"r1", "r2"}

(* requests sent to the pipeline *)
SensorInputs ==
    { [humidity |-> 50, light |-> 1200, temperature |-> 22,
       plant_id |-> "basil-001", plant_type |-> "basil"],
      [humidity |-> 40, light |-> 900, temperature |-> 30,
       plant_id |-> "basil-002", plant_type |-> "basil"],
      [humidity |-> 50, light |-> 1200, temperature |-> 22,
       plant_id |-> "basil-001", plant_type |-> "orchid"] }

(* no override, or a timestamp before every row of the table *)
TestTimestamps == {None, Some(0)}

(* rows already in plant_analyses when the process starts: the humidity   *)
(* history 70, 65, 55 of one plant, one row a day                         *)
ScenarioHumidity == <<70, 65, 55>>
SeedRow(i) ==
    [id |-> i, plant_id |-> "basil-001", timestamp |-> i * TicksPerDay,
     humidity |-> ScenarioHumidity[((i - 1) % 3) + 1], light |-> 1200, temperature |-> 22,
     comparisons |-> <<>>,
     status |-> IF i % 2 = 0 THEN "ALERT" ELSE "OK",
     message |-> AnalysisCompleted, action |-> NoActionNeeded]
SeedTable(n) == [i \in 1..n |-> SeedRow(i)]

(* what the engine may answer *)
WellFormedOK ==
    <<Doc([status |-> JStr(<<Ch("OK")>>), message |-> JStr(<<Ch("fine")>>),
           action |-> JStr(NoActionNeeded)])>>
WellFormedALERT ==
    <<Ch("Answer:"), SP,
      Doc([status |-> JStr(<<Ch("ALERT")>>), message |-> JStr(<<Ch("dry")>>),
           action |-> JStr(<<Ch("Water"), SP, Ch("the"), SP, Ch("plant")>>)])>>
PlainText == <<Ch("The"), SP, Ch("plant"), SP, Ch("is"), SP, Ch("fine")>>
NullStatus ==
    <<Doc([status |-> JNull, message |-> JStr(<<Ch("dry")>>), action |-> JStr(<<Ch("Water")>>)])>>
EngineReplies == {WellFormedOK, WellFormedALERT, PlainText, NullStatus}

agent_ready_always(a) == TRUE

agent_ready(a) == a # "None"

(* lines 86-106 *)
create_state(sensor_data) ==
    [sensor_data |-> [humidity |-> sensor_data.humidity, light |-> sensor_data.light,
                      temperature |-> sensor_data.temperature],
     plant_id |-> sensor_data.plant_id,
     plant_type |-> sensor_data.plant_type,
     comparisons |-> <<>>,
     metadata |-> <<>>]

Goto(r, label) == pc' = [pc EXCEPT ![r] = label]
Log(r, step) == steps' = [steps EXCEPT ![r] = Append(@, step)]
Fail(r, kind) == /\ raised' = [raised EXCEPT ![r] = kind]
                 /\ Goto(r, "raised")

(* lines 109-132: the call, the readiness check and create_state *)
Submit(r) ==
    /\ pc[r] = "idle"
    /\ \E sensor_data \in SensorInputs, ts \in TestTimestamps :
         /\ test_timestamp' = [test_timestamp EXCEPT ![r] = ts]
         /\ IF agent_ready(agent)
            THEN /\ state' = [state EXCEPT ![r] = create_state(sensor_data)]
                 /\ Goto(r, "soil_moisture")
                 /\ UNCHANGED raised
            ELSE /\ Fail(r, "RuntimeError")
                 /\ UNCHANGED state
    /\ UNCHANGED <<globals, table, clock, fetched, prompt, response, analysis_response,
                   saved, steps, call, ret>>

Compare_continues(r, name, verdict, next) ==
    /\ pc[r] = name
    /\ Log(r, name)
    /\ Goto(r, next)
    /\ IF IsExc(verdict)
       THEN /\ raised' = [raised EXCEPT ![r] = verdict.exc]
            /\ UNCHANGED state
       ELSE /\ state' = [state EXCEPT ![r].comparisons = (name :> verdict) @@ @]
            /\ UNCHANGED raised
    /\ UNCHANGED <<globals, table, clock, test_timestamp, fetched, prompt, response,
                   analysis_response, saved, call, ret>>

Compare_shared_dict(r, name, verdict, next) ==
    /\ pc[r] = name
    /\ Log(r, name)
    /\ IF IsExc(verdict)
       THEN /\ Fail(r, verdict.exc)
            /\ UNCHANGED state
       ELSE /\ state' = [q \in Runs |->
                            IF state[q] = None THEN state[q]
                            ELSE [state[q] EXCEPT !.comparisons = (name :> verdict) @@ @]]
            /\ Goto(r, next)
            /\ UNCHANGED raised
    /\ UNCHANGED <<globals, table, clock, test_timestamp, fetched, prompt, response,
                   analysis_response, saved, call, ret>>

(* lines 137-162: one comparator, its verdict stored or its error re-raised *)
Compare(r, name, verdict, next) ==
    /\ pc[r] = name
    /\ Log(r, name)
    /\ IF IsExc(verdict)
       THEN /\ Fail(r, verdict.exc)
            /\ UNCHANGED state
       ELSE /\ state' = [state EXCEPT ![r].comparisons = (name :> verdict) @@ @]
            /\ Goto(r, next)
            /\ UNCHANGED raised
    /\ UNCHANGED <<globals, table, clock, test_timestamp, fetched, prompt, response,
                   analysis_response, saved, call, ret>>

SoilMoisture(r) ==
    Compare(r, "soil_moisture",
            soil_moisture(state[r].plant_type, state[r].sensor_data.humidity), "temperature")

Temperature(r) ==
    Compare(r, "temperature",
            temperature(state[r].plant_type, state[r].sensor_data.temperature), "light")

Light(r) ==
    Compare(r, "light",
            light(state[r].plant_type, state[r].sensor_data.light), "history")

(* what the query inside history() came to: the rows, or the error of    *)
(* get_db() or of the query                                               *)
query_outcome(bound, reachable, analyses) ==
    IF ~bound THEN Raise("RuntimeError")
    ELSE IF ~reachable THEN Raise("OperationalError")
    ELSE [rows |-> analyses]

(* lines 164-175: history(state.plant_id, limit=10) *)
History(r) ==
    /\ pc[r] = "history"
    /\ Log(r, "history")
    /\ \E reachable \in BOOLEAN :
       \E analyses \in query_recent(table, state[r].plant_id, HistoryLimit) :
         LET history_result == history(SessionLocal # "None", reachable, analyses)
         IN  /\ state' = [state EXCEPT ![r].metadata =
                            ("history" :> IF IsExc(history_result)
                                          THEN [has_history |-> FALSE,
                                                error |-> history_result.exc]
                                          ELSE history_result) @@ @]
             /\ fetched' = [fetched EXCEPT ![r] = query_outcome(SessionLocal # "None",
                                                                 reachable, analyses)]
    /\ Goto(r, "prompt")
    /\ UNCHANGED <<globals, table, clock, test_timestamp, prompt, response,
                   analysis_response, saved, raised, call, ret>>

(* lines 177-253 *)
BuildPrompt(r) ==
    /\ pc[r] = "prompt"
    /\ LET p == build_prompt(state[r])
       IN  IF IsExc(p)
           THEN /\ Fail(r, p.exc)
                /\ UNCHANGED prompt
           ELSE /\ prompt' = [prompt EXCEPT ![r] = p]
                /\ Goto(r, "engine")
                /\ UNCHANGED raised
    /\ UNCHANGED <<globals, table, clock, test_timestamp, state, fetched, response,
                   analysis_response, saved, steps, call, ret>>

(* lines 255-266: the engine answers with some text or raises *)
InvokeEngine(r) ==
    /\ pc[r] = "engine"
    /\ Log(r, "engine")
    /\ \/ \E text \in EngineReplies :
            /\ response' = [response EXCEPT ![r] = Some(text)]
            /\ Goto(r, "normalize")
            /\ UNCHANGED raised
       \/ /\ Fail(r, "EngineError")
          /\ UNCHANGED response
    /\ UNCHANGED <<globals, table, clock, test_timestamp, state, fetched, prompt,
                   analysis_response, saved, call, ret>>

Normalize_escalates(r) ==
    /\ pc[r] = "normalize"
    /\ Log(r, "normalize")
    /\ LET result == normalize(response[r].some, lax)
           alert == \E k \in DOMAIN state[r].comparisons :
                       state[r].comparisons[k].status = "ALERT"
       IN  IF IsExc(result)
           THEN /\ Fail(r, result.exc)
                /\ UNCHANGED analysis_response
           ELSE /\ analysis_response' =
                      [analysis_response EXCEPT ![r] =
                          [result EXCEPT !.status = IF alert THEN "ALERT" ELSE @]]
                /\ Goto(r, "save")
                /\ UNCHANGED raised
    /\ UNCHANGED <<globals, table, clock, test_timestamp, state, fetched, prompt, response,
                   saved, call, ret>>

(* lines 268-345 *)
Normalize(r) ==
    /\ pc[r] = "normalize"
    /\ Log(r, "normalize")
    /\ LET result == normalize(response[r].some, lax)
       IN  IF IsExc(result)
           THEN /\ Fail(r, result.exc)
                /\ UNCHANGED analysis_response
           ELSE /\ analysis_response' = [analysis_response EXCEPT ![r] = result]
                /\ Goto(r, "save")
                /\ UNCHANGED raised
    /\ UNCHANGED <<globals, table, clock, test_timestamp, state, fetched, prompt, response,
                   saved, call, ret>>

new_row_status_ok(rows, st, resp, timestamp, now) ==
    [id |-> Len(rows) + 1,
     plant_id |-> st.plant_id,
     timestamp |-> IF timestamp # None THEN timestamp.some ELSE now,
     humidity |-> st.sensor_data.humidity,
     light |-> st.sensor_data.light,
     temperature |-> st.sensor_data.temperature,
     comparisons |-> st.comparisons,
     status |-> "OK", message |-> resp.message, action |-> resp.action]

(* src/app/database.py lines 125-188: the row save_analysis adds *)
new_row(rows, st, resp, timestamp, now) ==
    [id |-> Len(rows) + 1,
     plant_id |-> st.plant_id,
     timestamp |-> IF timestamp # None THEN timestamp.some ELSE now,
     humidity |-> st.sensor_data.humidity,
     light |-> st.sensor_data.light,
     temperature |-> st.sensor_data.temperature,
     comparisons |-> st.comparisons,
     status |-> resp.status, message |-> resp.message, action |-> resp.action]

db_add_over_last(rows, row) ==
    IF rows # <<>> /\ rows[Len(rows)].plant_id = row.plant_id
                   /\ rows[Len(rows)].comparisons # <<>>
    THEN [rows EXCEPT ![Len(rows)] = row]
    ELSE Append(rows, row)

(* src/app/database.py lines 176-178: db.add and db.commit insert the row; *)
(* the insert is one statement of the store, atomic among concurrent runs  *)
db_add(rows, row) == Append(rows, row)

after_save_error_propagates(kind) == kind

(* what process_with_pipeline does with the outcome of save_analysis:      *)
(* lines 365-367 log the error and go on                                   *)
after_save_error(kind) == "none"

(* lines 347-369: save_analysis in a try, then the return *)
Save(r) ==
    /\ pc[r] = "save"
    /\ steps' = [steps EXCEPT ![r] = @ \o <<"save">>]
    /\ \E reachable \in BOOLEAN, now \in {clock, clock + 1} :
         IF SessionLocal # "None" /\ reachable
         THEN /\ table' = db_add(table, new_row(table, state[r], analysis_response[r],
                                                test_timestamp[r], now))
              /\ clock' = now
              /\ saved' = [saved EXCEPT ![r] = "saved"]
              /\ Goto(r, "returned")
              /\ UNCHANGED raised
         ELSE /\ saved' = [saved EXCEPT ![r] = "failed"]
              /\ raised' = [raised EXCEPT ![r] =
                              after_save_error(IF SessionLocal = "None" THEN "RuntimeError"
                                               ELSE "OperationalError")]
              /\ pc' = [pc EXCEPT ![r] = IF raised'[r] = "none" THEN "returned" ELSE "raised"]
              /\ UNCHANGED <<table, clock>>
    /\ UNCHANGED <<globals, test_timestamp, state, fetched, prompt, response,
                   analysis_response, call, ret>>

NoRuns ==
    /\ clock = (MaxSeed + 1) * TicksPerDay
    /\ pc = [r \in Runs |-> "idle"]
    /\ test_timestamp = [r \in Runs |-> None]
    /\ state = [r \in Runs |-> None]
    /\ fetched = [r \in Runs |-> None]
    /\ prompt = [r \in Runs |-> None]
    /\ response = [r \in Runs |-> None]
    /\ analysis_response = [r \in Runs |-> None]
    /\ saved = [r \in Runs |-> "none"]
    /\ raised = [r \in Runs |-> "none"]
    /\ steps = [r \in Runs |-> <<>>]

Init ==
    /\ agent \in {"None", "engine"}
    /\ SessionLocal \in {"None", "bound"}
    /\ lax \in BOOLEAN
    /\ table \in {SeedTable(n) : n \in 0..MaxSeed}
    /\ NoRuns
    /\ call = None
    /\ ret = None

Next ==
    \E r \in Runs :
        \/ Submit(r)
        \/ SoilMoisture(r)
        \/ Temperature(r)
        \/ Light(r)
        \/ History(r)
        \/ BuildPrompt(r)
        \/ InvokeEngine(r)
        \/ Normalize(r)
        \/ Save(r)

Spec == Init /\ [][Next]_vars

-----------------------------------------------------------------------------
(* Functions on their own: the arguments are drawn in the initial state   *)
(* and one step applies the function                                       *)

RECURSIVE SeqsUpTo(_, _)
SeqsUpTo(S, n) ==
    IF n = 0 THEN {<<>>}
    ELSE LET shorter == SeqsUpTo(S, n - 1)
         IN  shorter \cup {Append(q, x) : q \in {p \in shorter : Len(p) = n - 1}, x \in S}

NoPipeline ==
    /\ agent = "engine"
    /\ SessionLocal = "bound"
    /\ lax = FALSE
    /\ table = <<>>
    /\ NoRuns

Apply(fn, result) ==
    /\ call # None
    /\ call.fn = fn
    /\ ret = None
    /\ ret' = result
    /\ UNCHANGED <<globals, table, clock, pc, test_timestamp, state, fetched, prompt,
                   response, analysis_response, saved, raised, steps, call>>

(* calculate_trend(values, current_value) *)
TrendValues == {0} \cup {sign * (100 + d) : sign \in {-1, 1}, d \in (-MaxDelta)..MaxDelta}

InitTrend ==
    /\ NoPipeline
    /\ call \in {[fn |-> "calculate_trend", values |-> v, current_value |-> c] :
                    v \in SeqsUpTo(TrendValues, MaxLen), c \in TrendValues}
    /\ ret = None

CallTrend == Apply("calculate_trend", calculate_trend(call.values, call.current_value))

SpecTrend == InitTrend /\ [][CallTrend]_vars

(* the normalization of process_with_pipeline on a raw engine text *)
Words == {<<Ch("OK")>>, <<Ch("ALERT")>>, <<Ch("ok")>>, <<>>}
Scalars == {JNum(1), JNull, JBool(TRUE), JDict}
Elements == {JStr(<<Ch("a")>>), JStr(<<Ch("b"), SP>>), JNum(1), JNull}
ActionTokens == {SP, DQ, SQ, LBRACK, RBRACK, COMMA, Ch("a")}
StatusValues == {Absent} \cup {JStr(w) : w \in Words} \cup {JNum(1), JNull, JList(<<>>)}
MessageValues == {Absent, JStr(<<Ch("m")>>), JNum(1), JNull, JList(<<JStr(<<Ch("m")>>)>>)}
(* lists of strings written as text: as str() writes them and as JSON      *)
(* writes them, bare or inside one pair of quotes                          *)
StringLists == SeqsUpTo({JStr(<<Ch("a")>>), JStr(<<Ch("b"), SP>>)}, MaxLen)
json_dumps(l) ==
    <<LBRACK>> \o Join([i \in 1..Len(l) |-> <<DQ>> \o l[i].s \o <<DQ>>], <<COMMA>>)
               \o <<RBRACK>>
FormsOf(l) ==
    {w \o form \o w : form \in {py_str(JList(l)), json_dumps(l)},
                       w \in {<<>>, <<DQ>>, <<SQ>>}}
ListForms == UNION {FormsOf(l) : l \in StringLists}
ActionValues ==
    {Absent} \cup Scalars
    \cup {JStr(w) : w \in SeqsUpTo(ActionTokens, MaxLen)}
    \cup {JStr(w) : w \in ListForms}
    \cup {JList(l) : l \in SeqsUpTo(Elements, MaxLen)}
Objects == [status : StatusValues, message : MessageValues, action : ActionValues]
BraceTokens == {Ch("x"), SP, LBRACE, RBRACE}
RawTexts ==
    SeqsUpTo(BraceTokens, MaxLen)
    \cup {pre \o <<Doc(o)>> \o post : o \in Objects,
                                      pre \in {<<>>, <<Ch("x")>>},
                                      post \in {<<>>}}
    \cup {pre \o <<Doc(o)>> \o post : o \in {EmptyObject},
                                      pre \in SeqsUpTo(BraceTokens, 1),
                                      post \in SeqsUpTo(BraceTokens \cup {Doc(EmptyObject)}, 1)}

InitNormalize ==
    /\ NoPipeline
    /\ call \in {[fn |-> "normalize", text |-> t, coerce |-> c] :
                    t \in RawTexts, c \in BOOLEAN}
    /\ ret = None

CallNormalize == Apply("normalize", normalize(call.text, call.coerce))

SpecNormalize == InitNormalize /\ [][CallNormalize]_vars

(* the comparators on a catalog profile of their own: the band of light   *)
(* is min = ideal - below, max = ideal + above, that of temperature has   *)
(* the two margins exchanged; a negative margin puts ideal outside it     *)
MaxTol == 5
ProfileIdeals == {0, 60}
Margins == {-1, 0, 2, 4}
Profile(ideal, below, above, tolerance) ==
    [ideal_conditions |->
        [soil_moisture |-> ideal,
         light |-> [min |-> ideal - below, max |-> ideal + above, ideal |-> ideal],
         temperature |-> [min |-> ideal - above, max |-> ideal + below, ideal |-> ideal]],
     tolerances |-> [soil_moisture |-> tolerance, light |-> tolerance,
                     temperature |-> tolerance]]

InitCompare ==
    /\ NoPipeline
    /\ call \in {[fn |-> f, plant |-> Profile(i, a, b, t), value |-> i + d] :
                    f \in {"soil_moisture", "temperature", "light"},
                    i \in ProfileIdeals, a \in Margins, b \in Margins,
                    t \in 0..MaxTol, d \in (-(MaxTol + 2))..(MaxTol + 2)}
    /\ ret = None

CallSoilMoisture == Apply("soil_moisture", soil_moisture_of(call.plant, call.value))
CallTemperature == Apply("temperature", temperature_of(call.plant, call.value))
CallLight == Apply("light", light_of(call.plant, call.value))

NextCompare ==
    \/ CallSoilMoisture
    \/ CallTemperature
    \/ CallLight

SpecCompare == InitCompare /\ [][NextCompare]_vars

-----------------------------------------------------------------------------
(* Properties *)

Started(r) == pc[r] # "idle"
Called(r, step) == \E i \in 1..Len(steps[r]) : steps[r][i] = step
HistoryDone(r) == state[r] # None /\ "history" \in DOMAIN state[r].metadata
WellFormed(text) == text \in {WellFormedOK, WellFormedALERT}

(* C1: for every raw engine text the normalization ends without raising   *)
(* and yields an AnalysisResponse.                                         *)
C1_NormalizationNeverRaises ==
    (call # None /\ call.fn = "normalize" /\ ret # None) => ~IsExc(ret)

(* C2: with the engine available, a plant_type of the catalog and a       *)
(* well-formed engine reply, a run returns an AnalysisResponse whatever   *)
(* the table holds for the plant: it fails only if the engine raises or   *)
(* answers something else than a well-formed object.                      *)
C2_ReturnsWhateverTheStoreHolds ==
    \A r \in Runs :
        (pc[r] = "raised" /\ agent_ready(agent) /\ state[r].plant_type \in DOMAIN Catalog)
        => /\ Called(r, "engine")
           /\ (response[r] # None => ~WellFormed(response[r].some))

(* C3: when save_analysis fails after normalization succeeded, the run    *)
(* raises nothing and returns the AnalysisResponse normalization built.   *)
C3_SaveFailureKeepsResult ==
    \A r \in Runs :
        saved[r] = "failed"
        => /\ pc[r] = "returned"
           /\ raised[r] = "none"
           /\ analysis_response[r] = normalize(response[r].some, lax)

C3_Witness ==
    \E r \in Runs : saved[r] = "failed" /\ pc[r] = "returned"
                    /\ analysis_response[r].status = "ALERT"

(* C4: an error while fetching inside history() comes back as a summary   *)
(* with has_history false and the error in its message; history() does    *)
(* not raise, and the run goes on to the engine call.                     *)
C4_HistoryErrorsAbsorbed ==
    \A r \in Runs :
        (fetched[r] # None /\ IsExc(fetched[r]))
        => /\ HistoryDone(r)
           /\ LET h == state[r].metadata.history
              IN  /\ h.has_history = FALSE
                  /\ "summary" \in DOMAIN h
                  /\ h = history_error(fetched[r].exc)
           /\ pc[r] \in {"prompt", "engine"} \/ Called(r, "engine")
           /\ raised[r] \notin {"RuntimeError", "OperationalError", "KeyError"}

C4_Witness ==
    \E r \in Runs : /\ fetched[r] # None
                    /\ IsExc(fetched[r])
                    /\ fetched[r].exc = "OperationalError"
                    /\ Called(r, "engine")

(* C5: every failure at or after the engine call is isolated: a run that  *)
(* reached the engine call returns an AnalysisResponse.                   *)
C5_FailuresAfterEngineIsolated ==
    \A r \in Runs : Called(r, "engine") => pc[r] # "raised"

(* C6: a run whose plant_type is not in the catalog fails in the          *)
(* soil_moisture comparator with an error other than the not-ready one;   *)
(* no verdict and no AnalysisResponse is produced, and the run makes no   *)
(* history fetch, no engine call and no append.                           *)
C6_UnknownPlantTypeFails ==
    \A r \in Runs :
        (state[r] # None /\ state[r].plant_type \notin DOMAIN Catalog
           /\ pc[r] # "soil_moisture")
        => /\ pc[r] = "raised"
           /\ raised[r] = "ValueError"
           /\ raised[r] # "RuntimeError"
           /\ steps[r] = <<"soil_moisture">>
           /\ DOMAIN state[r].comparisons = {}
           /\ fetched[r] = None
           /\ response[r] = None
           /\ analysis_response[r] = None
           /\ saved[r] = "none"

C6_Witness ==
    \E r \in Runs : /\ state[r] # None
                    /\ state[r].plant_type \notin DOMAIN Catalog
                    /\ pc[r] = "raised"

(* C7: with no agent, a run fails at once with the not-ready error: no    *)
(* comparator, no history fetch, no engine call and no append.            *)
C7_NotReadyFailsFast ==
    agent = "None"
    => /\ table = SeedTable(Len(table))
       /\ Len(table) <= MaxSeed
       /\ \A r \in Runs :
            Started(r) => /\ pc[r] = "raised"
                          /\ raised[r] = "RuntimeError"
                          /\ steps[r] = <<>>
                          /\ state[r] = None
                          /\ fetched[r] = None
                          /\ response[r] = None
                          /\ saved[r] = "none"

C7_Witness ==
    agent = "None" /\ \E r \in Runs : pc[r] = "raised"

(* C8: each trend of a run compares the value of the reading in flight    *)
(* with the mean of all rows fetched for the plant: average_historical is *)
(* that mean and change is the reading's value minus it.  With the rows   *)
(* of humidity 70, 65, 55 and a reading of humidity 50 the humidity trend *)
(* is "decreasing" with average_historical 63.33.                         *)
C8_TrendOfReadingInFlight ==
    \A r \in Runs :
        (HistoryDone(r) /\ state[r].metadata.history.has_history)
        => LET h == state[r].metadata.history
               rows == fetched[r].rows
               n == Len(rows)
           IN  \A m \in DOMAIN h.trends :
                  LET total == Sum([i \in 1..n |-> rows[i][m]])
                  IN  "average_historical" \in DOMAIN h.trends[m]
                      => /\ h.trends[m].average_historical = Round2(total, n)
                         /\ h.trends[m].change
                               = Round2(state[r].sensor_data[m] * n - total, n)
                         /\ ([i \in 1..n |-> rows[n + 1 - i].humidity] = <<70, 65, 55>>
                               /\ state[r].sensor_data.humidity = 50 /\ m = "humidity")
                            => /\ h.trends[m].direction = "decreasing"
                               /\ h.trends[m].average_historical = 6333

(* C9: for at least 2 historical values, direction is "stable" exactly    *)
(* when |change / mean * 100| < 2 (0 when the mean is 0), else            *)
(* "increasing" when change > 0 and "decreasing" when change < 0, with    *)
(* change = current - mean(historical).                                   *)
C9_DirectionFollowsChangePercent ==
    (call # None /\ call.fn = "calculate_trend" /\ ret # None /\ Len(call.values) >= 2)
    => LET n == Len(call.values)
           total == Sum(call.values)
           num == call.current_value * n - total
           stable == IF total = 0 THEN TRUE ELSE Abs(num) * 100 < 2 * Abs(total)
       IN  ret.direction = IF stable THEN "stable"
                           ELSE IF num > 0 THEN "increasing"
                           ELSE "decreasing"

(* C10: a trend entry is present in the summary history() returns only    *)
(* when at least 2 historical points exist besides the current value.     *)
C10_TrendNeedsTwoHistoricalPoints ==
    \A r \in Runs :
        (HistoryDone(r) /\ state[r].metadata.history.has_history)
        => LET h == state[r].metadata.history
           IN  \A m \in DOMAIN h.trends :
                  /\ Len(fetched[r].rows) - 1 >= 2
                  /\ h.trends[m].direction # "insufficient_data"

(* C11: when the query returns no row for the plant_id, history() returns *)
(* has_history false with empty recent_analyses, empty trends and         *)
(* total_analyses 0, without raising; the run goes on to the engine call  *)
(* as after any other history.                                             *)
C11_EmptyHistoryIsNormal ==
    \A r \in Runs :
        (fetched[r] # None /\ ~IsExc(fetched[r]) /\ Len(fetched[r].rows) = 0)
        => /\ HistoryDone(r)
           /\ LET h == state[r].metadata.history
              IN  /\ h.has_history = FALSE
                  /\ Len(h.recent_analyses) = 0
                  /\ DOMAIN h.trends = {}
                  /\ h.summary.total_analyses = 0
                  /\ "error" \notin DOMAIN h
           /\ pc[r] \in {"prompt", "engine"} \/ Called(r, "engine")
           /\ raised[r] \notin {"KeyError", "RuntimeError", "OperationalError"}

C11_Witness ==
    \E r \in Runs : /\ fetched[r] # None
                    /\ ~IsExc(fetched[r])
                    /\ Len(fetched[r].rows) = 0
                    /\ pc[r] = "returned"

(* the profile with the bands of light and temperature exchanged *)
Exchanged(plant) ==
    [plant EXCEPT !.ideal_conditions.light = plant.ideal_conditions.temperature,
                  !.ideal_conditions.temperature = plant.ideal_conditions.light,
                  !.tolerances.light = plant.tolerances.temperature,
                  !.tolerances.temperature = plant.tolerances.light]

(* C12: for light and for temperature, on every profile and value, status *)
(* is OK exactly when min <= value <= max or |value - ideal| <= tolerance *)
(* and ALERT otherwise; difference is value - ideal; and light gives on a *)
(* band the verdict temperature gives on the same band.                   *)
C12_BandRule ==
    (call # None /\ call.fn \in {"light", "temperature"} /\ ret # None)
    => LET band == call.plant.ideal_conditions[call.fn]
           tolerance == call.plant.tolerances[call.fn]
           value == call.value
           other == IF call.fn = "light"
                    THEN temperature_of(Exchanged(call.plant), value)
                    ELSE light_of(Exchanged(call.plant), value)
       IN  /\ ret.status = IF \/ (band.min <= value /\ value <= band.max)
                              \/ Abs(value - band.ideal) <= tolerance
                           THEN "OK" ELSE "ALERT"
           /\ ret.difference = value - band.ideal
           /\ other.status = ret.status
           /\ other.difference = ret.difference
           /\ other.message = ret.message
           /\ other.ideal = ret.ideal
           /\ other.current = ret.current

C12_Witness ==
    /\ call # None
    /\ call.fn = "light"
    /\ ret # None
    /\ call.value > call.plant.ideal_conditions.light.max
    /\ ret.status = "OK"
    /\ ret.difference > 0

(* C13: for soil moisture, on every profile and value, status is OK        *)
(* exactly when |value - ideal| <= tolerance, the boundary included, and  *)
(* ALERT otherwise, and difference is value - ideal; humidity 60 against  *)
(* ideal 60 with tolerance 5 gives OK with difference 0.                  *)
C13_SoilMoistureRule ==
    (call # None /\ call.fn = "soil_moisture" /\ ret # None)
    => LET ideal == call.plant.ideal_conditions.soil_moisture
           tolerance == call.plant.tolerances.soil_moisture
           value == call.value
       IN  /\ ret.status = IF Abs(value - ideal) <= tolerance THEN "OK" ELSE "ALERT"
           /\ ret.difference = value - ideal
           /\ (value = 60 /\ ideal = 60 /\ tolerance = 5)
              => (ret.status = "OK" /\ ret.difference = 0)

C13_Witness ==
    /\ call # None
    /\ call.fn = "soil_moisture"
    /\ ret # None
    /\ call.plant.ideal_conditions.soil_moisture = 60
    /\ call.plant.tolerances.soil_moisture = 5
    /\ call.value = 65
    /\ ret.status = "OK"

(* the raw text lacks an opening or a closing brace, or the slice from    *)
(* its first opening brace to its last closing brace does not decode      *)
NotDecoded(text) ==
    \/ ~\E i \in 1..Len(text) : HasOpen(text[i])
    \/ ~\E i \in 1..Len(text) : HasClose(text[i])
    \/ IsExc(json_loads(SubSeq(text, find_open(text), rfind_close(text))))

(* C14: whenever the raw text is not decoded, the AnalysisResponse has    *)
(* status OK, the raw text verbatim as message, and the action "none".    *)
C14_FallbackActionNone ==
    (call # None /\ call.fn = "normalize" /\ ret # None /\ NotDecoded(call.text))
    => /\ ~IsExc(ret)
       /\ ret.status = "OK"
       /\ ret.message = call.text
       /\ ret.action = <<Ch("none")>>

(* C14 as amended: whenever the raw text is not decoded, the              *)
(* AnalysisResponse has status OK, the raw text verbatim as message, and  *)
(* the action "aucune".                                                    *)
C14_FallbackActionAucune ==
    (call # None /\ call.fn = "normalize" /\ ret # None /\ NotDecoded(call.text))
    => /\ ~IsExc(ret)
       /\ ret.status = "OK"
       /\ ret.message = call.text
       /\ ret.action = <<Ch("aucune")>>

C14_Witness ==
    /\ call # None
    /\ call.fn = "normalize"
    /\ call.text = <<SP, RBRACE, LBRACE>>
    /\ ret # None
    /\ ~IsExc(ret)
    /\ ret.message = <<SP, RBRACE, LBRACE>>

(* the action of the object decoded from a raw text *)
DecodedAction(text) == parse_response(text).action
AllStrings(items) == \A i \in 1..Len(items) : items[i].t = "str"
Texts(items) == [i \in 1..Len(items) |-> items[i].s]

(* the sentence stated for a list L of strings *)
ListSentence(L) ==
    IF Len(L) = 0 THEN <<Ch("No"), SP, Ch("action"), SP, Ch("needed")>>
    ELSE IF Len(L) = 1 THEN <<Ch("Take"), SP, Ch("action:"), SP>> \o L[1]
    ELSE <<Ch("Take"), SP, Ch("multiple"), SP, Ch("actions:"), SP>>
         \o Join(Front(L), <<COMMA, SP>>) \o <<SP, Ch("and"), SP>> \o Last(L)

(* C15: a decoded action that is a list of strings gives as action "No    *)
(* action needed" when empty, "Take action: e" for one element e, and for *)
(* more "Take multiple actions: " followed by all but the last joined by  *)
(* ", ", then " and ", then the last.                                     *)
C15_ListSentence ==
    (call # None /\ call.fn = "normalize" /\ ret # None /\ ~IsExc(ret)
       /\ DecodedAction(call.text).t = "list"
       /\ AllStrings(DecodedAction(call.text).items))
    => ret.action = ListSentence(Texts(DecodedAction(call.text).items))

(* C15 as amended: the action is that sentence with its trailing blanks   *)
(* removed, so it is the sentence itself unless the last element is empty *)
(* or ends in a blank.                                                     *)
C15_ListSentenceTrimmed ==
    (call # None /\ call.fn = "normalize" /\ ret # None /\ ~IsExc(ret)
       /\ DecodedAction(call.text).t = "list"
       /\ AllStrings(DecodedAction(call.text).items))
    => LET L == Texts(DecodedAction(call.text).items)
       IN  /\ ret.action = rstrip(ListSentence(L))
           /\ (Len(L) > 0 /\ Len(Last(L)) > 0 /\ Last(Last(L)) # SP)
              => ret.action = ListSentence(L)

C15_Witness ==
    /\ call # None
    /\ call.fn = "normalize"
    /\ ret # None
    /\ ~IsExc(ret)
    /\ DecodedAction(call.text) = JList(<<JStr(<<Ch("a")>>), JStr(<<Ch("a")>>),
                                          JStr(<<Ch("b"), SP>>)>>)
    /\ ret.action = <<Ch("Take"), SP, Ch("multiple"), SP, Ch("actions:"), SP,
                      Ch("a"), COMMA, SP, Ch("a"), SP, Ch("and"), SP, Ch("b")>>

(* a string trimmed once, then without one layer of surrounding double    *)
(* quotes, then without one layer of surrounding single quotes            *)
TrimUnquote(s) ==
    LET t == strip(s)
        u == IF Len(t) > 0 /\ t[1] = DQ /\ t[Len(t)] = DQ
             THEN SubSeq(t, 2, Len(t) - 1) ELSE t
    IN  IF Len(u) > 0 /\ u[1] = SQ /\ u[Len(u)] = SQ
        THEN SubSeq(u, 2, Len(u) - 1) ELSE u

Bracketed(u) == Len(u) > 0 /\ u[1] = LBRACK /\ u[Len(u)] = RBRACK

(* an action that coercion leaves empty: an empty list, or a string that  *)
(* trimmed and unquoted is empty or the literal of an empty list          *)
EmptyAfterCoercion(a) ==
    \/ a = JList(<<>>)
    \/ /\ a.t = "str"
       /\ \/ Len(TrimUnquote(a.s)) = 0
          \/ Bracketed(TrimUnquote(a.s)) /\ literal_eval(TrimUnquote(a.s)) = JList(<<>>)

(* C16: the decoded object lacking status gives status OK, lacking        *)
(* message gives "Analysis completed", lacking action gives "No action    *)
(* needed"; a field that is present is never replaced by its default.     *)
C16_DefaultsOnlyWhenAbsent ==
    (call # None /\ call.fn = "normalize" /\ ret # None /\ ~IsExc(ret)
       /\ ~NotDecoded(call.text))
    => LET o == parse_response(call.text)
       IN  /\ o.status = Absent => ret.status = "OK"
           /\ o.message = Absent => ret.message = <<Ch("Analysis"), SP, Ch("completed")>>
           /\ o.action = Absent
                 => ret.action = <<Ch("No"), SP, Ch("action"), SP, Ch("needed")>>
           /\ o.status # Absent => o.status = JStr(<<Ch(ret.status)>>)
           /\ (o.message # Absent /\ o.message.t = "str") => ret.message = o.message.s
           /\ (o.message # Absent /\ o.message.t # "str")
                 => ret.message # <<Ch("Analysis"), SP, Ch("completed")>>
           /\ o.action # Absent
                 => ret.action # <<Ch("No"), SP, Ch("action"), SP, Ch("needed")>>

(* C16 as amended: the same, except that a present action that coercion   *)
(* leaves empty is returned as "No action needed"; no other present       *)
(* action is, unless it reads "No action needed" itself.                  *)
C16_DefaultsWhenAbsentOrEmpty ==
    (call # None /\ call.fn = "normalize" /\ ret # None /\ ~IsExc(ret)
       /\ ~NotDecoded(call.text))
    => LET o == parse_response(call.text)
       IN  /\ o.status = Absent => ret.status = "OK"
           /\ o.message = Absent => ret.message = <<Ch("Analysis"), SP, Ch("completed")>>
           /\ o.action = Absent
                 => ret.action = <<Ch("No"), SP, Ch("action"), SP, Ch("needed")>>
           /\ o.status # Absent => o.status = JStr(<<Ch(ret.status)>>)
           /\ (o.message # Absent /\ o.message.t = "str") => ret.message = o.message.s
           /\ (o.message # Absent /\ o.message.t # "str")
                 => ret.message # <<Ch("Analysis"), SP, Ch("completed")>>
           /\ o.action # Absent
                 => (ret.action = <<Ch("No"), SP, Ch("action"), SP, Ch("needed")>>
                       <=> \/ EmptyAfterCoercion(o.action)
                           \/ /\ o.action.t = "str"
                              /\ TrimUnquote(o.action.s)
                                    = <<Ch("No"), SP, Ch("action"), SP, Ch("needed")>>)

C16_Witness ==
    /\ call # None
    /\ call.fn = "normalize"
    /\ call.text = <<Ch("x"), Doc(EmptyObject)>>
    /\ ret # None
    /\ ~IsExc(ret)
    /\ ret.status = "OK"
    /\ ret.message = <<Ch("Analysis"), SP, Ch("completed")>>
    /\ ret.action = <<Ch("No"), SP, Ch("action"), SP, Ch("needed")>>

(* C17: every AnalysisResponse a run returns is fully populated: status   *)
(* is "OK" or "ALERT", message is the text of a string, and action is a   *)
(* string that is not empty, "No action needed" standing for an action    *)
(* that coercion leaves empty.                                             *)
C17_ResponseFullyPopulated ==
    (call # None /\ call.fn = "normalize" /\ ret # None /\ ~IsExc(ret))
    => LET o == parse_response(call.text)
       IN  /\ DOMAIN ret = {"status", "message", "action"}
           /\ ret.status \in {"OK", "ALERT"}
           /\ o.message # Absent => /\ o.message.t \in {"str", "num"}
                                    /\ ret.message = py_str(o.message)
           /\ Len(ret.action) > 0
           /\ (o.action # Absent /\ EmptyAfterCoercion(o.action))
                 => ret.action = <<Ch("No"), SP, Ch("action"), SP, Ch("needed")>>

C17_Witness ==
    /\ call # None
    /\ call.fn = "normalize"
    /\ ret # None
    /\ ~IsExc(ret)
    /\ DecodedAction(call.text) = JStr(<<SP, DQ, DQ>>)
    /\ ret.status = "ALERT"
    /\ ret.action = <<Ch("No"), SP, Ch("action"), SP, Ch("needed")>>

(* C18: for at least 2 historical values, change_percent is               *)
(* change / avg_historical * 100 whenever avg_historical is not 0, be it  *)
(* positive or negative, and 0 only when avg_historical is 0.             *)
C18_ChangePercentForNonZeroMean ==
    (call # None /\ call.fn = "calculate_trend" /\ ret # None /\ Len(call.values) >= 2)
    => LET n == Len(call.values)
           total == Sum(call.values)
           num == call.current_value * n - total
       IN  ret.change_percent = IF total = 0 THEN 0 ELSE Round2(num * 100, total)

(* the decoded status and message are ones AnalysisResponse accepts *)
ValidFields(o, coerce) ==
    /\ o.status = Absent \/ o.status \in {JStr(<<Ch("OK")>>), JStr(<<Ch("ALERT")>>)}
    /\ o.message = Absent \/ o.message.t = "str" \/ (coerce /\ o.message.t = "num")

(* the raw text with the action of its object replaced *)
WithAction(text, a) ==
    [i \in 1..Len(text) |-> IF IsDoc(text[i])
                             THEN Doc([text[i].doc EXCEPT !.action = a])
                             ELSE text[i]]

(* a bracketed string with a bare word in it, which is no literal *)
BareWordInBrackets(u) ==
    Bracketed(u) /\ Contains(u, Ch("a")) /\ ~Contains(u, SQ) /\ ~Contains(u, DQ)

(* C19: an action given as the literal of a list L of strings, bare or     *)
(* inside one pair of double or single quotes, normalizes to the action   *)
(* the list L itself normalizes to; a bracketed string that is not a list *)
(* literal is returned unchanged and nothing is raised.                    *)
C19_ListLiteralAsList ==
    (call # None /\ call.fn = "normalize" /\ ret # None /\ ~NotDecoded(call.text)
       /\ ValidFields(parse_response(call.text), call.coerce)
       /\ DecodedAction(call.text).t = "str")
    => LET a == DecodedAction(call.text)
       IN  /\ \A l \in StringLists :
                a.s \in FormsOf(l)
                => /\ ~IsExc(ret)
                   /\ ret.action
                        = normalize(WithAction(call.text, JList(l)), call.coerce).action
           /\ BareWordInBrackets(TrimUnquote(a.s))
                => /\ ~IsExc(ret)
                   /\ ret.action = TrimUnquote(a.s)

(* C19 as amended: the action of the literal is the sentence of the list  *)
(* rule untrimmed, and the action of the list L itself is that sentence   *)
(* without its trailing blanks; the two are the same unless the last      *)
(* element of L is empty or ends in a blank.                               *)
C19_ListLiteralAsListUntrimmed ==
    (call # None /\ call.fn = "normalize" /\ ret # None /\ ~NotDecoded(call.text)
       /\ ValidFields(parse_response(call.text), call.coerce)
       /\ DecodedAction(call.text).t = "str")
    => LET a == DecodedAction(call.text)
       IN  /\ \A l \in StringLists :
                a.s \in FormsOf(l)
                => LET L == Texts(l)
                       of_list == normalize(WithAction(call.text, JList(l)),
                                            call.coerce).action
                   IN  /\ ~IsExc(ret)
                       /\ ret.action = ListSentence(L)
                       /\ of_list = rstrip(ret.action)
                       /\ (Len(L) > 0 /\ Len(Last(L)) > 0 /\ Last(Last(L)) # SP)
                             => ret.action = of_list
           /\ BareWordInBrackets(TrimUnquote(a.s))
                => /\ ~IsExc(ret)
                   /\ ret.action = TrimUnquote(a.s)

C19_Witness ==
    /\ call # None
    /\ call.fn = "normalize"
    /\ ret # None
    /\ ~IsExc(ret)
    /\ DecodedAction(call.text)
         = JStr(<<DQ, LBRACK, SQ, Ch("a"), SQ, COMMA, SP, SQ, Ch("b"), SP, SQ, RBRACK, DQ>>)
    /\ ret.action = <<Ch("Take"), SP, Ch("multiple"), SP, Ch("actions:"), SP,
                      Ch("a"), SP, Ch("and"), SP, Ch("b"), SP>>

(* the string form of an action that is neither a string nor a list *)
StringForm(a) ==
    IF a.t = "num" THEN <<Ch(ToString(a.n))>>
    ELSE IF a.t = "bool" THEN (IF a.b THEN <<Ch("True")>> ELSE <<Ch("False")>>)
    ELSE IF a.t = "null" THEN <<Ch("None")>>
    ELSE <<LBRACE, RBRACE>>

(* C20: a string action is trimmed once, then loses one layer of          *)
(* surrounding double quotes if it starts and ends with one, then one     *)
(* layer of surrounding single quotes if what is left starts and ends     *)
(* with one; an action that is a number, a boolean, null or an object is  *)
(* first turned into its string form.  The value so obtained is the       *)
(* action returned whenever it is neither empty nor bracketed.            *)
C20_TrimThenUnquote ==
    (call # None /\ call.fn = "normalize" /\ ret # None /\ ~NotDecoded(call.text)
       /\ ValidFields(parse_response(call.text), call.coerce))
    => LET a == DecodedAction(call.text)
       IN  /\ (a.t = "str" /\ Len(TrimUnquote(a.s)) > 0 /\ ~Bracketed(TrimUnquote(a.s)))
                => (~IsExc(ret) /\ ret.action = TrimUnquote(a.s))
           /\ a.t \in {"num", "bool", "null", "dict"}
                => (~IsExc(ret) /\ ret.action = TrimUnquote(StringForm(a)))

C20_Witness ==
    /\ call # None
    /\ call.fn = "normalize"
    /\ ret # None
    /\ ~IsExc(ret)
    /\ DecodedAction(call.text) = JStr(<<SQ, DQ, SQ>>)
    /\ ret.action = <<DQ>>

-----------------------------------------------------------------------------
(* the calls of one run in the order process_with_pipeline makes them *)
PipelineOrder ==
    <<"soil_moisture", "temperature", "light", "history", "engine", "normalize", "save">>
Comparators == {"soil_moisture", "temperature", "light"}
IsPrefix(s, t) == Len(s) <= Len(t) /\ s = SubSeq(t, 1, Len(s))
ComparatorFailed(r) == raised[r] = "ValueError"

(* C21: in every run the calls made so far are an initial part of the     *)
(* order soil_moisture, temperature, light, history, engine call,         *)
(* normalization, persistence append, each at most once; a run that has   *)
(* returned has made all of them; a run whose comparator failed is over   *)
(* and made no call after that comparator nor stored a verdict for it;    *)
(* and persistence is called only once normalization has produced the     *)
(* AnalysisResponse.                                                       *)
C21_StepsInOrder ==
    \A r \in Runs :
        /\ IsPrefix(steps[r], PipelineOrder)
        /\ pc[r] = "returned" => steps[r] = PipelineOrder
        /\ pc[r] \in {"soil_moisture", "temperature", "light", "history"}
              => steps[r] \o <<pc[r]>> = SubSeq(PipelineOrder, 1, Len(steps[r]) + 1)
        /\ ComparatorFailed(r)
              => /\ pc[r] = "raised"
                 /\ steps[r] # <<>>
                 /\ Last(steps[r]) \in Comparators
                 /\ Last(steps[r]) \notin DOMAIN state[r].comparisons
                 /\ analysis_response[r] = None
                 /\ saved[r] = "none"
        /\ Called(r, "save")
              => /\ Called(r, "normalize")
                 /\ analysis_response[r] # None
        /\ saved[r] # "none" => Called(r, "save")

(* one run went through every step and returned, the other stopped at its *)
(* first comparator                                                       *)
C21_Witness ==
    /\ pc["r1"] = "returned"
    /\ steps["r1"] = PipelineOrder
    /\ saved["r1"] = "saved"
    /\ ComparatorFailed("r2")
    /\ steps["r2"] = <<"soil_moisture">>

(* the step in which run r returns with its record appended: the table   *)
(* is the old one with one more row, and that row is the run's            *)
RecordOf(r, row) ==
    /\ row.plant_id = state[r].plant_id
    /\ row.humidity = state[r].sensor_data.humidity
    /\ row.light = state[r].sensor_data.light
    /\ row.temperature = state[r].sensor_data.temperature
    /\ row.comparisons = state[r].comparisons
    /\ DOMAIN row.comparisons = Comparators
    /\ row.status = analysis_response[r].status
    /\ row.message = analysis_response[r].message
    /\ row.action = analysis_response[r].action
Appends(r) ==
    /\ pc[r] = "save"
    /\ pc'[r] = "returned"
    /\ saved[r] = "none"
    /\ saved'[r] = "saved"
    /\ Len(table') = Len(table) + 1
    /\ SubSeq(table', 1, Len(table)) = table
    /\ RecordOf(r, table'[Len(table')])
    /\ \A q \in Runs \ {r} : saved'[q] = saved[q]
NoAppend ==
    /\ table' = table
    /\ \A r \in Runs : saved'[r] = "saved" => saved[r] = "saved"

(* C22: plant_analyses is append-only.  Every step either leaves the     *)
(* table as it is, or is the return of one run whose save succeeded and   *)
(* adds exactly one row after the existing ones, carrying that run's      *)
(* plant_id, humidity, light, temperature, its three verdicts and the     *)
(* status, message and action it returns; a run that raised has added no  *)
(* row, a returned run has called save_analysis exactly once, and without *)
(* a session factory nothing is ever added.                               *)
C22_AppendOnly ==
    /\ [][NoAppend \/ \E r \in Runs : Appends(r)]_vars
    /\ [](\A r \in Runs :
            /\ raised[r] # "none" => saved[r] # "saved"
            /\ pc[r] = "returned" => saved[r] \in {"saved", "failed"}
            /\ SessionLocal = "None" => saved[r] # "saved")

(* one run returned ALERT and its row, the last of the table, says so;    *)
(* the other run failed and the table holds the rows it had plus that one *)
C22_Witness ==
    /\ pc["r1"] = "returned"
    /\ saved["r1"] = "saved"
    /\ analysis_response["r1"].status = "ALERT"
    /\ table # <<>>
    /\ RecordOf("r1", table[Len(table)])
    /\ Len(table) >= 2
    /\ \A i \in 1..(Len(table) - 1) : table[i] = SeedRow(i)
    /\ pc["r2"] = "raised"

(* the rows a run fetched, none when its query failed *)
FetchedRows(r) ==
    IF fetched[r] # None /\ "rows" \in DOMAIN fetched[r] THEN fetched[r].rows ELSE <<>>
FetchedIds(r) == {FetchedRows(r)[i].id : i \in 1..Len(FetchedRows(r))}
(* the rows added since the process started: those of runs, which carry   *)
(* verdicts                                                               *)
AddedRows == {i \in 1..Len(table) : table[i].comparisons # <<>>}
SavedRuns == {r \in Runs : saved[r] = "saved"}

(* C23: for runs interleaved in any way, on the same plant_id or not: the *)
(* rows a run fetched are rows of the table, and in the step in which the *)
(* run appends its record that record is a new row, none of those it      *)
(* fetched; and the table holds exactly one added row per run whose save  *)
(* succeeded, so with two successful runs exactly two new rows.           *)
C23_ConcurrentRuns ==
    /\ [][\A r \in Runs :
             (saved[r] = "none" /\ saved'[r] = "saved")
                => /\ table' # <<>>
                   /\ table'[Len(table')].id \notin FetchedIds(r)
                   /\ \A i \in 1..Len(FetchedRows(r)) :
                         FetchedRows(r)[i] # table'[Len(table')]
                   /\ fetched'[r] = fetched[r]]_vars
    /\ [](/\ Cardinality(AddedRows) = Cardinality(SavedRuns)
          /\ \A r \in Runs : \A i \in 1..Len(FetchedRows(r)) :
                /\ FetchedRows(r)[i].id \in 1..Len(table)
                /\ table[FetchedRows(r)[i].id] = FetchedRows(r)[i])

(* two runs on the same plant fetched the same non-empty history, neither *)
(* saw the other's record, and both records are in the table              *)
C23_Witness ==
    /\ SavedRuns = Runs
    /\ state["r1"].plant_id = state["r2"].plant_id
    /\ FetchedRows("r1") # <<>>
    /\ FetchedRows("r1") = FetchedRows("r2")
    /\ Len(table) = Len(FetchedRows("r1")) + 2
    /\ AddedRows = {Len(table) - 1, Len(table)}
    /\ FetchedIds("r1") \cap AddedRows = {}

(* what a run computes by itself from its own reading, the rows it        *)
(* fetched and the reply it received                                      *)
VerdictAlone(st, name) ==
    IF name = "soil_moisture" THEN soil_moisture(st.plant_type, st.sensor_data.humidity)
    ELSE IF name = "temperature" THEN temperature(st.plant_type, st.sensor_data.temperature)
    ELSE light(st.plant_type, st.sensor_data.light)
VerdictsDue(r) ==
    {k \in Comparators : Called(r, k)}
        \ (IF ComparatorFailed(r) THEN {steps[r][Len(steps[r])]} ELSE {})
OwnedBy(r) ==
    <<test_timestamp[r], state[r], fetched[r], prompt[r], response[r],
      analysis_response[r], saved[r], raised[r], steps[r]>>

(* C24: the State built by create_state is the run's own.  A step of one  *)
(* run leaves the State, fetched rows, prompt, reply and response of      *)
(* every other run as they are, and the reading in a State never changes. *)
(* At every moment a run's comparisons are exactly the verdicts of the    *)
(* comparators it has called, each computed from its own plant_type and   *)
(* reading; its history summary is the one computed from the rows it      *)
(* fetched; and its AnalysisResponse is the normalization of the reply it *)
(* received, whatever the other run does in between.                      *)
C24_StateOwnedByRun ==
    /\ [][\A r \in Runs :
             /\ pc'[r] = pc[r] => OwnedBy(r)' = OwnedBy(r)
             /\ state[r] # None
                  => /\ state'[r] # None
                     /\ state'[r].sensor_data = state[r].sensor_data
                     /\ state'[r].plant_id = state[r].plant_id
                     /\ state'[r].plant_type = state[r].plant_type]_vars
    /\ [](\A r \in Runs :
            /\ state[r] # None
                 => /\ DOMAIN state[r].comparisons = VerdictsDue(r)
                    /\ \A k \in DOMAIN state[r].comparisons :
                          state[r].comparisons[k] = VerdictAlone(state[r], k)
                    /\ DOMAIN state[r].metadata \subseteq {"history"}
            /\ (HistoryDone(r) /\ "rows" \in DOMAIN fetched[r])
                 => state[r].metadata.history = history_of(fetched[r].rows)
            /\ analysis_response[r] # None
                 => analysis_response[r] = normalize(response[r].some, lax))

(* two runs with different readings for different plants, interleaved,    *)
(* both returned, each with its own verdicts and its own response         *)
C24_Witness ==
    /\ pc = [r \in Runs |-> "returned"]
    /\ state["r1"].plant_id # state["r2"].plant_id
    /\ state["r1"].comparisons["light"].status = "OK"
    /\ state["r2"].comparisons["light"].status = "ALERT"
    /\ analysis_response["r1"].status = "ALERT"
    /\ analysis_response["r2"].status = "OK"
    /\ FetchedRows("r1") # <<>>
    /\ FetchedRows("r2") = <<>>

-----------------------------------------------------------------------------
(* history(plant_id, limit) on a table of its own: up to MaxRows rows,    *)
(* their timestamps in insertion order, back-dated or shared by two rows, *)
(* their status ALERT on every p-th row, some of them of another plant    *)
MaxRows == 12
StampSchemes == {"ticks", "daily", "backdated", "paired"}
Stamp(scheme, i, n) ==
    IF scheme = "ticks" THEN i
    ELSE IF scheme = "daily" THEN i * TicksPerDay
    ELSE IF scheme = "backdated" THEN (n - i) * TicksPerDay
    ELSE (i + 1) \div 2
AlertPatterns == {[p |-> 0, q |-> 0]} \cup {[p |-> p, q |-> q] : p \in 1..3, q \in 0..2}
IsAlert(pat, i) == pat.p > 0 /\ pat.q < pat.p /\ i % pat.p = pat.q
HistoryRow(i, n, scheme, pat, mixed) ==
    [id |-> i,
     plant_id |-> IF mixed /\ i % 4 = 0 THEN "basil-002" ELSE "basil-001",
     timestamp |-> Stamp(scheme, i, n),
     humidity |-> 50 + i, light |-> 1200, temperature |-> 22,
     comparisons |-> <<>>,
     status |-> IF IsAlert(pat, i) THEN "ALERT" ELSE "OK",
     message |-> AnalysisCompleted, action |-> NoActionNeeded]
HistoryTables ==
    {[i \in 1..n |-> HistoryRow(i, n, scheme, pat, mixed)] :
        n \in 0..MaxRows, scheme \in StampSchemes,
        pat \in {a \in AlertPatterns : a.q < a.p \/ a.p = 0}, mixed \in BOOLEAN}

InitHistory ==
    /\ NoPipeline
    /\ call \in {[fn |-> "history", rows |-> t, plant_id |-> "basil-001",
                  limit |-> HistoryLimit, reachable |-> b] :
                    t \in HistoryTables, b \in BOOLEAN}
               \cup {[fn |-> "prompt", rows |-> t, sensor_data |-> d, reachable |-> b] :
                        t \in HistoryTables, d \in SensorInputs, b \in BOOLEAN}
    /\ ret = None

(* ret keeps the rows the query returned next to what history() returned *)
CallHistory ==
    /\ call # None
    /\ call.fn = "history"
    /\ ret = None
    /\ \E analyses \in query_recent(call.rows, call.plant_id, call.limit) :
         ret' = [analyses |-> IF call.reachable THEN analyses ELSE <<>>,
                 result |-> history(TRUE, call.reachable, analyses)]
    /\ UNCHANGED <<globals, table, clock, pc, test_timestamp, state, fetched, prompt,
                   response, analysis_response, saved, raised, steps, call>>

(* agent.py lines 132-175: the State once the comparators and history()   *)
(* have run, or the comparator's error                                    *)
state_before_prompt(sensor_data, history_result) ==
    LET st == create_state(sensor_data)
        verdicts == [k \in Comparators |-> VerdictAlone(st, k)]
    IN  IF \E k \in Comparators : IsExc(verdicts[k]) THEN Raise("ValueError")
        ELSE [st EXCEPT !.comparisons = verdicts,
                        !.metadata = [history |-> history_result]]

(* agent.py lines 132-253 on a table of its own: the prompt a run builds, *)
(* next to the rows its query returned and the State it was built from    *)
CallPrompt ==
    /\ call # None
    /\ call.fn = "prompt"
    /\ ret = None
    /\ \E analyses \in query_recent(call.rows, call.sensor_data.plant_id, HistoryLimit) :
         LET st == state_before_prompt(call.sensor_data,
                                       history(TRUE, call.reachable, analyses))
         IN  ret' = [analyses |-> IF call.reachable THEN analyses ELSE <<>>,
                     state |-> st,
                     prompt |-> IF IsExc(st) THEN st ELSE build_prompt(st)]
    /\ UNCHANGED <<globals, table, clock, pc, test_timestamp, state, fetched, prompt,
                   response, analysis_response, saved, raised, steps, call>>

NextHistory ==
    \/ CallHistory
    \/ CallPrompt

SpecHistory == InitHistory /\ [][NextHistory]_vars

RowsOf(rows, plant_id) == {i \in 1..Len(rows) : rows[i].plant_id = plant_id}
Min(a, b) == IF a < b THEN a ELSE b
AlertRows(analyses) == {i \in 1..Len(analyses) : analyses[i].status = "ALERT"}
Stamps(analyses) == {analyses[i].timestamp : i \in 1..Len(analyses)}
Greatest(S) == CHOOSE x \in S : \A y \in S : y <= x
Least(S) == CHOOSE x \in S : \A y \in S : x <= y
WholeDays(analyses) == (Greatest(Stamps(analyses)) - Least(Stamps(analyses))) \div TicksPerDay

(* C25: for every non-empty fetch the summary has total_analyses equal to *)
(* the number of rows fetched, which is the number of the plant's rows    *)
(* capped at 10; alert_count equal to the number of fetched rows with     *)
(* status ALERT, between 0 and total_analyses; last_alert_date equal to   *)
(* the greatest timestamp of a fetched ALERT row, None without one; and   *)
(* time_span_days equal to the whole days from the oldest to the newest   *)
(* fetched row, 1 when that is 0 or a single row was fetched.             *)
C25_SummaryOfFetchedRows ==
    (ret # None /\ call.fn = "history" /\ ret.analyses # <<>>) =>
        LET analyses == ret.analyses
            summary == ret.result.summary
        IN  /\ ret.result.has_history
            /\ summary.total_analyses = Len(analyses)
            /\ Len(analyses) = Min(Cardinality(RowsOf(call.rows, call.plant_id)), 10)
            /\ summary.alert_count = Cardinality(AlertRows(analyses))
            /\ 0 <= summary.alert_count
            /\ summary.alert_count <= summary.total_analyses
            /\ summary.last_alert_date =
                 (IF AlertRows(analyses) = {} THEN None
                  ELSE Some(isoformat(Greatest({analyses[i].timestamp :
                                                   i \in AlertRows(analyses)}))))
            /\ summary.time_span_days =
                 (IF Len(analyses) = 1 \/ WholeDays(analyses) = 0 THEN 1
                  ELSE WholeDays(analyses))

(* more than 10 rows of the plant, the newest 10 fetched, some of them    *)
(* ALERT, spanning more than a day                                        *)
C25_Witness ==
    /\ ret # None
    /\ call.fn = "history"
    /\ Cardinality(RowsOf(call.rows, call.plant_id)) > 10
    /\ ret.result.summary.total_analyses = 10
    /\ ret.result.summary.alert_count \in 1..9
    /\ ret.result.summary.last_alert_date # None
    /\ ret.result.summary.time_span_days > 1

(* the step in which run r makes its history query and gets rows *)
Fetches(r) ==
    /\ pc[r] = "history"
    /\ pc'[r] = "prompt"
    /\ fetched'[r] # None
    /\ "rows" \in DOMAIN fetched'[r]
Descending(analyses) ==
    \A i \in 1..Len(analyses) : \A j \in i..Len(analyses) :
        analyses[i].timestamp >= analyses[j].timestamp
SameRequest(r, q) ==
    /\ state[r] # None
    /\ state[q] # None
    /\ state[r].sensor_data = state[q].sensor_data
    /\ state[r].plant_id = state[q].plant_id
    /\ state[r].plant_type = state[q].plant_type

(* C26: the row a run appends has the test_timestamp of the run when one  *)
(* was given and the clock's time at the append otherwise, and its other  *)
(* fields are those of the run's State and response whatever the          *)
(* test_timestamp; two runs with the same request and the same engine     *)
(* reply build the same response whether or not either has a              *)
(* test_timestamp.  The rows a history query returns are the plant's rows *)
(* with the greatest timestamps, newest timestamp first, whatever the     *)
(* order in which they were inserted, and most_recent_date is the         *)
(* greatest timestamp fetched.                                            *)
C26_TimestampOverride ==
    /\ [][\A r \in Runs :
             /\ Appends(r)
                  => /\ table'[Len(table')].timestamp =
                          (IF test_timestamp[r] # None THEN test_timestamp[r].some
                           ELSE clock')
                     /\ clock' >= clock
                     /\ RecordOf(r, table'[Len(table')])
             /\ Fetches(r)
                  => LET analyses == fetched'[r].rows
                         mine == RowsOf(table, state[r].plant_id)
                         got == {analyses[i].id : i \in 1..Len(analyses)}
                     IN  /\ Descending(analyses)
                         /\ got \subseteq mine
                         /\ Cardinality(got) = Len(analyses)
                         /\ Len(analyses) = Min(Cardinality(mine), 10)
                         /\ \A i \in mine \ got : \A j \in got :
                               table[i].timestamp <= table[j].timestamp]_vars
    /\ [](\A r \in Runs :
            /\ \A q \in Runs :
                 (SameRequest(r, q) /\ response[r] # None /\ response[r] = response[q]
                    /\ analysis_response[r] # None /\ analysis_response[q] # None)
                 => analysis_response[r] = analysis_response[q]
            /\ (HistoryDone(r) /\ FetchedRows(r) # <<>>)
                 => state[r].metadata.history.summary.most_recent_date =
                       isoformat(Greatest(Stamps(FetchedRows(r)))))

(* r1 saved a back-dated record; r2, on the same plant and with the same  *)
(* reading and reply, fetched it after the older-inserted rows although   *)
(* it was inserted last, and saved its own record with the clock's time;  *)
(* both returned the same response                                        *)
C26_Witness ==
    /\ SavedRuns = Runs
    /\ test_timestamp["r1"] = Some(0)
    /\ test_timestamp["r2"] = None
    /\ SameRequest("r1", "r2")
    /\ response["r1"] = response["r2"]
    /\ analysis_response["r1"] = analysis_response["r2"]
    /\ Len(FetchedRows("r2")) >= 2
    /\ FetchedRows("r2")[Len(FetchedRows("r2"))] = table[Len(table) - 1]
    /\ table[Len(table) - 1].timestamp = 0
    /\ table[Len(table)].timestamp = clock
    /\ clock > 0

(* a fetched row as the prompt shows it: the date of its timestamp, its   *)
(* three values and its status                                            *)
Snapshot(row) ==
    [date |-> row.timestamp \div TicksPerDay,
     humidity |-> row.humidity, light |-> row.light, temperature |-> row.temperature,
     status |-> row.status]

(* C27: every prompt handed to the engine holds the three values of the   *)
(* reading and, for each of the three comparators, the status and message *)
(* of its verdict; it holds the historical-context section exactly when   *)
(* the history summary has has_history true, so never when the query      *)
(* failed or returned no row; and the snapshots it lists are at most 5,   *)
(* namely the first ones of the fetched rows in their newest-first order  *)
(* (the first 5 when 5 or more rows were fetched).                        *)
C27_PromptContents ==
    (ret # None /\ call.fn = "prompt" /\ ~IsExc(ret.prompt)) =>
        LET p == ret.prompt
            analyses == ret.analyses
            history_data == ret.state.metadata.history
            section == p.historical_context
        IN  /\ p.sensor_data = [humidity |-> call.sensor_data.humidity,
                                light |-> call.sensor_data.light,
                                temperature |-> call.sensor_data.temperature]
            /\ DOMAIN p.results = Comparators
            /\ \A k \in Comparators :
                  LET verdict == VerdictAlone(create_state(call.sensor_data), k)
                  IN  /\ p.results[k].status = verdict.status
                      /\ p.results[k].message = verdict.message
            /\ (section # None) <=> history_data.has_history
            /\ (~call.reachable \/ analyses = <<>>) => section = None
            /\ section # None =>
                  /\ Descending(analyses)
                  /\ Len(section.recent) <= 5
                  /\ Len(section.recent) <= Len(analyses)
                  /\ Len(analyses) >= 5 => Len(section.recent) = 5
                  /\ \A i \in 1..Len(section.recent) :
                        section.recent[i] = Snapshot(analyses[i])

(* ten rows fetched out of more, the prompt lists the five newest *)
C27_Witness ==
    /\ ret # None
    /\ call.fn = "prompt"
    /\ ~IsExc(ret.prompt)
    /\ Cardinality(RowsOf(call.rows, call.sensor_data.plant_id)) > 10
    /\ Len(ret.analyses) = 10
    /\ ret.prompt.historical_context # None
    /\ Len(ret.prompt.historical_context.recent) = 5
    /\ ret.prompt.historical_context.recent[5] = Snapshot(ret.analyses[5])
    /\ ret.prompt.results["light"].status = "OK"

-----------------------------------------------------------------------------
(* Requests for one plant sent one after the other, each after the        *)
(* previous one was answered (src/dataset_testing/send_test_requests.py   *)
(* lines 130-150), to a server whose agent is ready, whose store answers  *)
(* every query and insert, and whose engine replies with well-formed      *)
(* JSON.  call counts the requests answered so far.                       *)
MaxRequests == 4
Sender == "r1"

InitRepeat ==
    /\ agent = "engine"
    /\ SessionLocal = "bound"
    /\ lax = FALSE
    /\ table \in {SeedTable(n) : n \in 0..MaxSeed}
    /\ NoRuns
    /\ call = [fn |-> "send_test_requests", successful |-> 0, failed |-> 0]
    /\ ret = None

(* send_request: POST /analyze with a test_date or without *)
SendRequest ==
    /\ call.successful + call.failed < MaxRequests
    /\ Submit(Sender)
    /\ state'[Sender].plant_id = "basil-001"
    /\ state'[Sender].plant_type \in DOMAIN Catalog

QueryAnswered == History(Sender) /\ "rows" \in DOMAIN fetched'[Sender]

WellFormedReply ==
    /\ InvokeEngine(Sender)
    /\ response'[Sender] # None
    /\ WellFormed(response'[Sender].some)

InsertAnswered == Save(Sender) /\ saved'[Sender] = "saved"

(* lines 143-146: the answer is counted, and the next request may go *)
ReceiveAnswer ==
    /\ pc[Sender] \in {"returned", "raised"}
    /\ call' = IF pc[Sender] = "returned"
               THEN [call EXCEPT !.successful = @ + 1]
               ELSE [call EXCEPT !.failed = @ + 1]
    /\ pc' = [pc EXCEPT ![Sender] = "idle"]
    /\ test_timestamp' = [test_timestamp EXCEPT ![Sender] = None]
    /\ state' = [state EXCEPT ![Sender] = None]
    /\ fetched' = [fetched EXCEPT ![Sender] = None]
    /\ prompt' = [prompt EXCEPT ![Sender] = None]
    /\ response' = [response EXCEPT ![Sender] = None]
    /\ analysis_response' = [analysis_response EXCEPT ![Sender] = None]
    /\ saved' = [saved EXCEPT ![Sender] = "none"]
    /\ raised' = [raised EXCEPT ![Sender] = "none"]
    /\ steps' = [steps EXCEPT ![Sender] = <<>>]
    /\ UNCHANGED <<globals, table, clock, ret>>

NextRepeat ==
    \/ SendRequest
    \/ SoilMoisture(Sender)
    \/ Temperature(Sender)
    \/ Light(Sender)
    \/ QueryAnswered
    \/ BuildPrompt(Sender)
    \/ WellFormedReply
    \/ Normalize(Sender)
    \/ InsertAnswered
    \/ ReceiveAnswer

SpecRepeat == InitRepeat /\ [][NextRepeat]_vars

(* C28: with the agent ready, the store answering, a catalogued           *)
(* plant_type and well-formed replies, no request of the sequence fails:  *)
(* the run in progress has raised nothing, no answered request failed,    *)
(* and the table holds one added row per answered request (plus the row   *)
(* of the run in progress once it has saved), so the plant's row count    *)
(* never stays where it is while requests keep coming.                    *)
C28_EverySubmissionAddsARecord ==
    /\ raised[Sender] = "none"
    /\ call.failed = 0
    /\ Cardinality(AddedRows) =
          call.successful + (IF saved[Sender] = "saved" THEN 1 ELSE 0)

(* the run is past its normalization step *)
Normalized(r) == Called(r, "normalize")
AllAlert(r) ==
    /\ DOMAIN state[r].comparisons = Comparators
    /\ \A k \in Comparators : state[r].comparisons[k].status = "ALERT"

(* C29: the outcome of normalization depends on the engine's raw text     *)
(* only.  Two runs that received the same text and are past normalization *)
(* hold the same AnalysisResponse, or raised the same error, whatever     *)
(* their readings, verdicts, fetched rows and test_timestamp; and a run   *)
(* whose text was not decoded as JSON holds status OK with the text as    *)
(* message, also when its three verdicts are ALERT.                       *)
C29_ResultFromReplyAlone ==
    \A r \in Runs :
        /\ \A q \in Runs :
              (Normalized(r) /\ Normalized(q) /\ response[r] = response[q])
                 => /\ analysis_response[r] = analysis_response[q]
                    /\ raised[r] = raised[q]
        /\ (Normalized(r) /\ NotDecoded(response[r].some))
              => /\ analysis_response[r] # None
                 /\ analysis_response[r].status = "OK"
                 /\ analysis_response[r].message = response[r].some

(* two returned runs with the same reply, not JSON, and different         *)
(* readings, plants, fetched rows and test_timestamp: one of them with    *)
(* three ALERT verdicts; both hold the same response, status OK           *)
C29_Witness ==
    /\ pc = [r \in Runs |-> "returned"]
    /\ response["r1"] = response["r2"]
    /\ NotDecoded(response["r1"].some)
    /\ state["r1"].sensor_data # state["r2"].sensor_data
    /\ state["r1"].comparisons # state["r2"].comparisons
    /\ test_timestamp["r1"] # test_timestamp["r2"]
    /\ FetchedRows("r1") # FetchedRows("r2")
    /\ AllAlert("r2")
    /\ analysis_response["r1"] = analysis_response["r2"]
    /\ analysis_response["r2"].status = "OK"

(* the band and tolerance a call of light or temperature reads *)
BandOf(c) ==
    [min |-> c.plant.ideal_conditions[c.fn].min,
     max |-> c.plant.ideal_conditions[c.fn].max,
     ideal |-> c.plant.ideal_conditions[c.fn].ideal,
     tolerance |-> c.plant.tolerances[c.fn]]

====
